---- MODULE Spec2Model ----
(***************************************************************************)
(* Verification model of the pact-reference core: path expressions         *)
(* (pact_models/src/path_exp.rs), message pacts                            *)
(* (pact_models/src/message_pact.rs) and MIME multipart matching           *)
(* (pact_matching/src/binary_utils.rs).                                    *)
(*                                                                         *)
(* Strings of the program are sequences of one-character strings, so that  *)
(* rendering and parsing work character by character as the code does.     *)
(***************************************************************************)
EXTENDS Integers, Sequences, FiniteSets, TLC

VARIABLES
  docPath,     \* path_exp.rs: the DocPath under construction {path_tokens, expr}
  parsed,      \* path_exp.rs: the last parse_path_exp call {expr, result}
  pacts,       \* message_pact.rs: the MessagePact values the program holds
  merged,      \* message_pact.rs: the last merge call {a, b, result}
  call,        \* binary_utils.rs: per match_mime_multipart call, the caller side
  task,        \* binary_utils.rs: per call, the spawned parser thread
  eval         \* the last application of a function that keeps no state {f, in, out}

vars == <<docPath, parsed, pacts, merged, call, task, eval>>

pathVars == <<docPath, parsed>>
pactVars == <<pacts, merged>>
mimeVars == <<call, task>>
evalVars == <<eval>>

(***************************************************************************)
(* Bounds of the model.                                                    *)
(***************************************************************************)
MaxTokens == 2      \* tokens pushed after Root
MaxNameLen == 2     \* characters in a field name
MaxIndex == 11      \* largest Index value (two decimal digits)

\* Characters field names are drawn from: a letter, a digit and the two
\* characters the renderer escapes.
NameChars == {"a", "1", "'", "\\"}

RECURSIVE SeqsUpTo(_, _)
SeqsUpTo(S, n) ==
  IF n = 0 THEN {<<>>}
  ELSE LET shorter == SeqsUpTo(S, n - 1)
       IN shorter \cup {Append(s, x) : s \in {t \in shorter : Len(t) = n - 1}, x \in S}

(***************************************************************************)
(* Characters.                                                             *)
(***************************************************************************)
Letters == {"a", "b", "f", "x", "A"}
Digits == {"0", "1", "2", "3", "4", "5", "6", "7", "8", "9"}

is_alphabetic(ch) == ch \in Letters
\* numeric characters outside ASCII, each written as one symbol: superscript
\* two and Arabic-Indic digit three
NumericOthers == {"U+00B2", "U+0663"}
is_numeric(ch) == ch \in Digits \cup NumericOthers

is_identifier_char(ch) ==
  is_alphabetic(ch) \/ is_numeric(ch) \/ ch = "_" \/ ch = "-" \/ ch = ":"
    \/ ch = "#" \/ ch = "@"

DigitChar(d) == CASE d = 0 -> "0" [] d = 1 -> "1" [] d = 2 -> "2" [] d = 3 -> "3"
                  [] d = 4 -> "4" [] d = 5 -> "5" [] d = 6 -> "6" [] d = 7 -> "7"
                  [] d = 8 -> "8" [] d = 9 -> "9"
DigitValue(ch) == CHOOSE d \in 0..9 : DigitChar(d) = ch

\* format!("{}", n) for a usize
RECURSIVE usize_to_string(_)
usize_to_string(n) ==
  IF n < 10 THEN <<DigitChar(n)>>
  ELSE Append(usize_to_string(n \div 10), DigitChar(n % 10))

\* str::parse::<usize>() of a run of ASCII digits, which may follow a "+"
RECURSIVE parse_usize(_)
parse_usize(s) ==
  IF s[1] = "+" THEN parse_usize(Tail(s))
  ELSE IF Len(s) = 1 THEN DigitValue(s[1])
  ELSE parse_usize(SubSeq(s, 1, Len(s) - 1)) * 10 + DigitValue(s[Len(s)])

\* usize::MAX on a 64-bit target, in decimal
USIZE_MAX == <<"1", "8", "4", "4", "6", "7", "4", "4", "0", "7", "3", "7", "0", "9", "5", "5",
               "1", "6", "1", "5">>

\* usize::MAX + 1
TooLarge == SubSeq(USIZE_MAX, 1, 19) \o <<"6">>

RECURSIVE skip_zeros(_)
skip_zeros(s) == IF Len(s) > 1 /\ s[1] = "0" THEN skip_zeros(Tail(s)) ELSE s

\* a before b, for two runs of digits of one length
RECURSIVE digits_less(_, _)
digits_less(a, b) ==
  IF a = <<>> THEN FALSE
  ELSE IF a[1] # b[1] THEN DigitValue(a[1]) < DigitValue(b[1])
  ELSE digits_less(Tail(a), Tail(b))

\* str::parse::<usize>() returns Ok: ASCII digits only, after an optional "+",
\* and a value of at most usize::MAX
parse_usize_ok(s) ==
  LET digits == IF s # <<>> /\ s[1] = "+" THEN Tail(s) ELSE s
      value == skip_zeros(digits)
  IN /\ digits # <<>>
     /\ \A i \in 1..Len(digits) : digits[i] \in Digits
     /\ \/ Len(value) < Len(USIZE_MAX)
        \/ Len(value) = Len(USIZE_MAX) /\ ~digits_less(USIZE_MAX, value)

(***************************************************************************)
(* PathToken                                                               *)
(***************************************************************************)
Root == [t |-> "Root"]
Field(name) == [t |-> "Field", name |-> name]
Index(i) == [t |-> "Index", index |-> i]
Star == [t |-> "Star"]
StarIndex == [t |-> "StarIndex"]

(***************************************************************************)
(* Rendering: write_obj_key_for_path and DocPath::build_expr               *)
(***************************************************************************)
\* IDENT: ^[_A-Za-z][_A-Za-z0-9]*$
IDENT_is_match(key) ==
  /\ Len(key) > 0
  /\ (key[1] = "_" \/ is_alphabetic(key[1]))
  /\ \A i \in 2..Len(key) : key[i] = "_" \/ is_alphabetic(key[i]) \/ key[i] \in Digits

\* ESCAPE.replace_all(key, "\<match>"): a backslash before every \ and '
RECURSIVE ESCAPE_replace_all(_)
ESCAPE_replace_all(key) ==
  IF key = <<>> THEN <<>>
  ELSE (IF Head(key) \in {"\\", "'"} THEN <<"\\", Head(key)>> ELSE <<Head(key)>>)
         \o ESCAPE_replace_all(Tail(key))

write_obj_key_for_path(out, key) ==
  IF IDENT_is_match(key)
  THEN out \o <<".">> \o key
  ELSE out \o <<"[", "'">> \o ESCAPE_replace_all(key) \o <<"'", "]">>

write_token(out, token) ==
  CASE token.t = "Root" -> Append(out, "$")
    [] token.t = "Field" -> write_obj_key_for_path(out, token.name)
    [] token.t = "Index" -> out \o <<"[">> \o usize_to_string(token.index) \o <<"]">>
    [] token.t = "Star" -> out \o <<".", "*">>
    [] token.t = "StarIndex" -> out \o <<"[", "*", "]">>

RECURSIVE build_expr_from(_, _)
build_expr_from(buffer, tokens) ==
  IF tokens = <<>> THEN buffer
  ELSE build_expr_from(write_token(buffer, Head(tokens)), Tail(tokens))

build_expr(tokens) == build_expr_from(<<>>, tokens)

(***************************************************************************)
(* Parsing: parse_path_exp and its helpers.  Positions are 1-based here;   *)
(* the index the code reports is the position minus one.  A successful     *)
(* step returns the tokens so far and the position of the next unread      *)
(* character.                                                              *)
(***************************************************************************)
ParseOk(tokens, pos) == [ok |-> TRUE, tokens |-> tokens, pos |-> pos]
\* ch = "" when the message names no character, index = -1 when it names no index
ParseErr(msg, ch, index, path) ==
  [ok |-> FALSE, msg |-> msg, ch |-> ch, index |-> index, path |-> path]
\* the thread panics: no Result is returned
ParsePanic(msg, path) ==
  [ok |-> FALSE, panic |-> TRUE, msg |-> msg, ch |-> "", index |-> -1, path |-> path]
Panicked(r) == ~r.ok /\ "panic" \in DOMAIN r

RECURSIVE identifier_loop(_, _, _, _)
identifier_loop(path, pos, id, tokens) ==
  IF pos > Len(path) THEN ParseOk(Append(tokens, Field(id)), pos)
  ELSE IF is_identifier_char(path[pos])
       THEN identifier_loop(path, pos + 1, Append(id, path[pos]), tokens)
  ELSE IF path[pos] \in {".", "'", "["}
       THEN ParseOk(Append(tokens, Field(id)), pos)
  ELSE ParseErr("is not allowed in an identifier", path[pos], pos - 1, path)

identifier(ch, path, pos, tokens) == identifier_loop(path, pos, <<ch>>, tokens)

\* pos is the position after the "."; index is the 0-based index of the "."
path_identifier(path, pos, tokens, index) ==
  IF pos > Len(path)
  THEN ParseErr("Expected a path after .", "", index, path)
  ELSE IF path[pos] = "*" THEN ParseOk(Append(tokens, Star), pos + 1)
  ELSE IF is_identifier_char(path[pos]) THEN identifier(path[pos], path, pos + 1, tokens)
  ELSE ParseErr("Expected either a * or path identifier", "", pos - 1, path)

\* ch is the character last taken (at position pos - 1), pos the next unread one
RECURSIVE string_path_loop(_, _, _, _)
string_path_loop(path, pos, id, tokens) ==
  LET ch == path[pos - 1] IN
  IF ch # "'" /\ pos <= Len(path)
  THEN string_path_loop(path, pos + 1, Append(id, ch), tokens)
  ELSE IF ch = "'"
       THEN IF id = <<>>
            THEN ParseErr("Empty strings are not allowed", "", pos - 2, path)
            ELSE ParseOk(Append(tokens, Field(id)), pos)
       ELSE ParseErr("Unterminated string", "", pos - 2, path)

\* pos is the position after the opening quote; index its 0-based index
string_path(path, pos, tokens, index) ==
  IF pos <= Len(path)
  THEN string_path_loop(path, pos + 1, <<>>, tokens)
  ELSE ParseErr("Unterminated string", "", index, path)

RECURSIVE index_path_loop(_, _, _, _)
index_path_loop(path, pos, id, tokens) ==
  IF pos <= Len(path) /\ is_numeric(path[pos])
  THEN index_path_loop(path, pos + 1, Append(id, path[pos]), tokens)
  ELSE IF pos <= Len(path) /\ path[pos] # "]"
       THEN ParseErr("Indexes can only consist of numbers or a *", path[pos], pos - 1, path)
       ELSE IF ~parse_usize_ok(id)
            THEN ParsePanic("called Result::unwrap() on an Err value", path)
       ELSE ParseOk(Append(tokens, Index(parse_usize(id))), pos)

\* pos is the position of the first digit
index_path(path, pos, tokens) == index_path_loop(path, pos + 1, <<path[pos]>>, tokens)

\* char::len_utf8 of the characters drawn
len_utf8(ch) == IF ch \in NumericOthers THEN 2 ELSE 1

\* str::len: the length in bytes
RECURSIVE str_len(_)
str_len(s) == IF s = <<>> THEN 0 ELSE len_utf8(Head(s)) + str_len(Tail(s))

\* the closing "]" of a bracket expression
bracket_close(path, r) ==
  IF ~r.ok THEN r
  ELSE IF r.pos > Len(path)
       THEN ParseErr("Unterminated brackets", "", str_len(path) - 1, path)
  ELSE IF path[r.pos] # "]"
       THEN ParseErr("Unterminated brackets, found", path[r.pos], r.pos - 1, path)
  ELSE ParseOk(r.tokens, r.pos + 1)

\* pos is the position after the "["; index is the 0-based index of the "["
bracket_path(path, pos, tokens, index) ==
  IF pos > Len(path)
  THEN ParseErr("Expected a ' (single qoute) or a digit", "", index, path)
  ELSE LET c == path[pos] IN
       IF c = "'" THEN bracket_close(path, string_path(path, pos + 1, tokens, pos - 1))
       ELSE IF is_numeric(c) THEN bracket_close(path, index_path(path, pos, tokens))
       ELSE IF c = "*" THEN bracket_close(path, ParseOk(Append(tokens, StarIndex), pos + 1))
       ELSE IF c = "]"
            THEN ParseErr("Empty bracket expressions are not allowed", "", pos - 1, path)
       ELSE ParseErr("Indexes can only consist of numbers or a *", c, pos - 1, path)

RECURSIVE path_exp(_, _, _)
path_exp(path, pos, tokens) ==
  IF pos > Len(path) THEN ParseOk(tokens, pos)
  ELSE LET r == CASE path[pos] = "." -> path_identifier(path, pos + 1, tokens, pos - 1)
                  [] path[pos] = "[" -> bracket_path(path, pos + 1, tokens, pos - 1)
                  [] OTHER -> ParseErr("Expected a . or [ instead of", path[pos], pos - 1, path)
       IN IF r.ok THEN path_exp(path, r.pos, r.tokens) ELSE r

\* Result<Vec<PathToken>, String>
parse_path_exp(path) ==
  IF path = <<>> THEN ParseOk(<<>>, 1)
  ELSE IF path[1] = "$" THEN path_exp(path, 2, <<Root>>)
  ELSE IF is_alphabetic(path[1]) \/ is_numeric(path[1])
       THEN LET r == identifier(path[1], path, 2, <<Root>>)
            IN IF r.ok THEN path_exp(path, r.pos, r.tokens) ELSE r
  ELSE ParseErr("does not start with a root marker $", "", -1, path)

(***************************************************************************)
(* DocPath constructors and operations                                     *)
(***************************************************************************)
DocPath_root == [path_tokens |-> <<Root>>, expr |-> <<"$">>]

DocPath_from_tokens(tokens) == [path_tokens |-> tokens, expr |-> build_expr(tokens)]

DocPath_push(path, token) ==
  [path_tokens |-> Append(path.path_tokens, token), expr |-> write_token(path.expr, token)]

FieldNames == SeqsUpTo(NameChars, MaxNameLen) \ {<<>>}

\* the tokens that may follow Root in a legal path
PushTokens == {Field(n) : n \in FieldNames} \cup {Index(i) : i \in {0, 1, MaxIndex}}
                \cup {Star, StarIndex}

NoParse == [called |-> FALSE, expr |-> <<>>, tokens |-> <<>>, result |-> ParseOk(<<>>, 1)]

InitPath ==
  /\ docPath = DocPath_root
  /\ parsed = NoParse

\* DocPath::root()
NewRoot ==
  /\ docPath' = DocPath_root
  /\ parsed' = NoParse
  /\ UNCHANGED <<pactVars, mimeVars, evalVars>>

\* DocPath::push(token)
Push ==
  /\ Len(docPath.path_tokens) <= MaxTokens
  /\ \E token \in PushTokens : docPath' = DocPath_push(docPath, token)
  /\ parsed' = NoParse
  /\ UNCHANGED <<pactVars, mimeVars, evalVars>>

\* DocPath::from_tokens(path.tokens().clone())
FromTokens ==
  /\ docPath' = DocPath_from_tokens(docPath.path_tokens)
  /\ parsed' = NoParse
  /\ UNCHANGED <<pactVars, mimeVars, evalVars>>

\* parse_path_exp(&path.to_string())
ParseRendered ==
  /\ parsed' = [called |-> TRUE, expr |-> docPath.expr, tokens |-> docPath.path_tokens,
                result |-> parse_path_exp(docPath.expr)]
  /\ UNCHANGED <<docPath, pactVars, mimeVars, evalVars>>

PathNext == NewRoot \/ Push \/ FromTokens \/ ParseRendered

(***************************************************************************)
(* Message pacts (message_pact.rs).  Descriptions, provider-state names    *)
(* and consumer/provider names are strings the code only compares and      *)
(* orders; they are numbered here in their lexicographic order             *)
(* (1 < 2 < ...).  contents stands for the remaining fields of a Message   *)
(* (contents, metadata, matching rules, generators).                       *)
(***************************************************************************)
MaxMessages == 2    \* messages a pact is built up to by add_interaction

Descriptions == {1, 2}
StateLists == {<<>>, <<1>>}
Contents == {1, 2}

\* the messages drawn: the first description with either contents and with a
\* provider state, and one message of each other description
Messages ==
  {m \in [description : Descriptions, provider_states : StateLists, contents : Contents] :
     \/ m.description = 1 /\ (m.provider_states = <<>> \/ m.contents = 1)
     \/ m.provider_states = <<>> /\ m.contents = 1}

\* Ord::cmp
cmp(a, b) == IF a < b THEN "Less" ELSE IF a > b THEN "Greater" ELSE "Equal"

\* Ord::cmp for Vec<String>: lexicographic
RECURSIVE cmp_vec(_, _)
cmp_vec(a, b) ==
  IF a = <<>> /\ b = <<>> THEN "Equal"
  ELSE IF a = <<>> THEN "Less"
  ELSE IF b = <<>> THEN "Greater"
  ELSE IF cmp(Head(a), Head(b)) # "Equal" THEN cmp(Head(a), Head(b))
  ELSE cmp_vec(Tail(a), Tail(b))

\* the closure given to merge_join_by: description, then provider-state names
merge_cmp(a, b) ==
  IF cmp(a.description, b.description) = "Equal"
  THEN cmp_vec(a.provider_states, b.provider_states)
  ELSE cmp(a.description, b.description)

\* itertools merge_join_by: one pass over both lists, in the order stored
RECURSIVE merge_join_by(_, _)
merge_join_by(left, right) ==
  IF left = <<>> THEN [i \in 1..Len(right) |-> [either |-> "Right", r |-> right[i]]]
  ELSE IF right = <<>> THEN [i \in 1..Len(left) |-> [either |-> "Left", l |-> left[i]]]
  ELSE LET c == merge_cmp(Head(left), Head(right)) IN
       CASE c = "Less" ->
              <<[either |-> "Left", l |-> Head(left)]>> \o merge_join_by(Tail(left), right)
         [] c = "Greater" ->
              <<[either |-> "Right", r |-> Head(right)]>> \o merge_join_by(left, Tail(right))
         [] c = "Equal" ->
              <<[either |-> "Both", l |-> Head(left), r |-> Head(right)]>>
                \o merge_join_by(Tail(left), Tail(right))

\* Interaction::as_message for a Message: Some(self.clone())
as_message(i) == [ok |-> TRUE, value |-> i]

\* a plausible slip: on a pair the existing message is kept
merge_either_keeps_existing(e) ==
  CASE e.either = "Left" -> [ok |-> TRUE, value |-> e.l]
    [] e.either = "Right" -> as_message(e.r)
    [] e.either = "Both" -> [ok |-> TRUE, value |-> e.l]

\* the closure mapped over the merge: Left keeps the existing message,
\* Right and Both take the incoming one
merge_either(e) ==
  CASE e.either = "Left" -> [ok |-> TRUE, value |-> e.l]
    [] e.either = "Right" -> as_message(e.r)
    [] e.either = "Both" -> as_message(e.r)

\* a plausible slip: the incoming messages are appended to the existing ones
merge_messages_append(a, b) ==
  [i \in 1..(Len(a) + Len(b)) |->
     IF i <= Len(a) THEN [ok |-> TRUE, value |-> a[i]]
     ELSE [ok |-> TRUE, value |-> b[i - Len(a)]]]

\* Vec<Result<Message, String>>
merge_messages(a, b) ==
  LET joined == merge_join_by(a, b)
  IN [i \in 1..Len(joined) |-> merge_either(joined[i])]

\* a plausible slip: metadata and specification version of the incoming pact
merge_takes_incoming_metadata(self, pact) ==
  IF self.consumer = pact.consumer /\ self.provider = pact.provider
  THEN LET messages == merge_messages(self.messages, pact.messages)
       IN [ok |-> TRUE,
           pact |-> [consumer |-> self.consumer,
                     provider |-> self.provider,
                     messages |-> [i \in 1..Len(messages) |-> messages[i].value],
                     metadata |-> pact.metadata,
                     specification_version |-> pact.specification_version]]
  ELSE [ok |-> FALSE, err |-> "different consumers or providers"]

\* MessagePact::merge(&self, pact)
merge(self, pact) ==
  IF self.consumer = pact.consumer /\ self.provider = pact.provider
  THEN LET messages == merge_messages(self.messages, pact.messages)
           errors == {i \in 1..Len(messages) : ~messages[i].ok}
       IN IF errors = {}
          THEN [ok |-> TRUE,
                pact |-> [consumer |-> self.consumer,
                          provider |-> self.provider,
                          messages |-> [i \in 1..Len(messages) |-> messages[i].value],
                          metadata |-> self.metadata,
                          specification_version |-> self.specification_version]]
          ELSE [ok |-> FALSE, err |-> "Unable to merge pacts"]
  ELSE [ok |-> FALSE, err |-> "different consumers or providers"]

\* MessagePact::add_interaction for a message interaction
add_interaction(self, interaction) ==
  [self EXCEPT !.messages = Append(self.messages, interaction)]

\* MessagePact::add_md_version: the entry key -> version under "pactRust"
add_md_version(self, key, version) ==
  IF "pactRust" \in DOMAIN self.metadata
  THEN LET md == self.metadata["pactRust"]
       IN [self EXCEPT !.metadata["pactRust"] =
             [k \in DOMAIN md \cup {key} |-> IF k = key THEN version ELSE md[k]]]
  ELSE [self EXCEPT !.metadata =
          [k \in DOMAIN self.metadata \cup {"pactRust"} |->
             IF k = "pactRust" THEN [n \in {key} |-> version] ELSE self.metadata[k]]]

\* Option::unwrap_or
unwrap_or(option, default) == IF option.some THEN option.value ELSE default

\* option_env!("CARGO_PKG_VERSION"): cargo sets the variable when it builds
\* the crate, so the constant is Some(version of the crate)
PACT_RUST_VERSION == [some |-> TRUE, value |-> "CARGO_PKG_VERSION"]

\* MessagePact::default_metadata()
default_metadata ==
  [k \in {"pact-specification", "pact-rust"} |->
     IF k = "pact-specification" THEN [n \in {"version"} |-> "3.0.0"]
     ELSE [n \in {"version"} |-> unwrap_or(PACT_RUST_VERSION, "unknown")]]

\* the metadata of a pact read from a file that a library version is
\* recorded in
FileMetadata ==
  [k \in {"pactSpecification", "pactRust"} |->
     IF k = "pactSpecification" THEN [n \in {"version"} |-> "3.0.0"]
     ELSE [n \in {"ffi"} |-> "0.4.0"]]

PactIds == {1, 2}

EmptyPact(consumer, metadata, version) ==
  [consumer |-> consumer, provider |-> 1, messages |-> <<>>,
   metadata |-> metadata, specification_version |-> version]

NoMerge == [called |-> FALSE]

InitPact ==
  /\ \E consumer \in {1, 2} :
       pacts = [i \in PactIds |->
                  IF i = 1 THEN EmptyPact(1, default_metadata, "V3")
                  ELSE EmptyPact(consumer, FileMetadata, "V4")]
  /\ merged = NoMerge

AddInteraction ==
  \E i \in PactIds, m \in Messages :
    /\ Len(pacts[i].messages) < MaxMessages
    /\ pacts' = [pacts EXCEPT ![i] = add_interaction(pacts[i], m)]
    /\ merged' = NoMerge
    /\ UNCHANGED <<pathVars, mimeVars, evalVars>>

\* a.merge(b); with keep, the caller goes on with the merged pact in place of a
Merge ==
  \E i \in PactIds, j \in PactIds, keep \in BOOLEAN :
    LET result == merge(pacts[i], pacts[j]) IN
    /\ merged' = [called |-> TRUE, a |-> pacts[i], b |-> pacts[j], result |-> result]
    /\ IF keep /\ result.ok /\ Len(result.pact.messages) <= MaxMessages
       THEN pacts' = [pacts EXCEPT ![i] = result.pact]
       ELSE UNCHANGED pacts
    /\ UNCHANGED <<pathVars, mimeVars, evalVars>>

\* pact.add_md_version("models", "1.0")
AddMdVersion ==
  \E i \in PactIds :
    /\ pacts' = [pacts EXCEPT ![i] = add_md_version(pacts[i], "models", "1.0")]
    /\ merged' = NoMerge
    /\ UNCHANGED <<pathVars, mimeVars, evalVars>>

\* a write through one of the references pact.interactions_mut() hands out:
\* the stored message becomes any message
InteractionsMut ==
  \E i \in PactIds :
    \E k \in 1..Len(pacts[i].messages), m \in Messages :
      /\ pacts' = [pacts EXCEPT ![i].messages[k] = m]
      /\ merged' = NoMerge
      /\ UNCHANGED <<pathVars, mimeVars, evalVars>>

PactNext == AddInteraction \/ Merge \/ AddMdVersion \/ InteractionsMut


(***************************************************************************)
(* Path weights (path_exp.rs), used by the matching context.               *)
(***************************************************************************)
\* Display for PathToken
token_to_string(token) ==
  CASE token.t = "Root" -> <<"$">>
    [] token.t = "Field" -> token.name
    [] token.t = "Index" -> usize_to_string(token.index)
    [] token.t = "Star" -> <<"*">>
    [] token.t = "StarIndex" -> <<"[", "*", "]">>

DocPath_to_vec(self) ==
  [i \in 1..Len(self.path_tokens) |-> token_to_string(self.path_tokens[i])]

\* str::parse::<usize>() succeeds: a non-empty run of ASCII digits, after an
\* optional "+", of a value up to usize::MAX
parses_as_usize(s) == parse_usize_ok(s)

matches_token_star_two(path_fragment, path_token) ==
  CASE path_token.t = "Root" -> IF path_fragment = <<"$">> THEN 2 ELSE 0
    [] path_token.t = "Field" -> IF path_fragment = path_token.name THEN 2 ELSE 0
    [] path_token.t = "Index" ->
         IF parses_as_usize(path_fragment) /\ parse_usize(path_fragment) = path_token.index
         THEN 2 ELSE 0
    [] path_token.t = "StarIndex" ->
         IF path_fragment = <<"[", "*", "]">> THEN 1
         ELSE IF parses_as_usize(path_fragment) THEN 1 ELSE 0
    [] path_token.t = "Star" -> 2

matches_token(path_fragment, path_token) ==
  CASE path_token.t = "Root" -> IF path_fragment = <<"$">> THEN 2 ELSE 0
    [] path_token.t = "Field" -> IF path_fragment = path_token.name THEN 2 ELSE 0
    [] path_token.t = "Index" ->
         IF parses_as_usize(path_fragment) /\ parse_usize(path_fragment) = path_token.index
         THEN 2 ELSE 0
    [] path_token.t = "StarIndex" ->
         IF path_fragment = <<"[", "*", "]">> THEN 1
         ELSE IF parses_as_usize(path_fragment) THEN 1 ELSE 0
    [] path_token.t = "Star" -> 1

RECURSIVE weight_fold(_, _, _)
weight_fold(tokens, path, n) ==
  IF n = 0 THEN 1 ELSE weight_fold(tokens, path, n - 1) * matches_token(path[n], tokens[n])

path_weight_same_length(self, path) ==
  IF Len(path) = Len(self.path_tokens)
  THEN <<weight_fold(self.path_tokens, path, Len(self.path_tokens)), Len(self.path_tokens)>>
  ELSE <<0, Len(self.path_tokens)>>

\* (weight, number of tokens)
path_weight(self, path) ==
  IF Len(path) >= Len(self.path_tokens)
  THEN <<weight_fold(self.path_tokens, path, Len(self.path_tokens)), Len(self.path_tokens)>>
  ELSE <<0, Len(self.path_tokens)>>

matches_path(self, path) == path_weight(self, path)[1] > 0

DocPath_join(self, part) ==
  IF part = <<"*">> THEN DocPath_push(self, Star)
  ELSE IF part = <<"[", "*", "]">> THEN DocPath_push(self, StarIndex)
  ELSE IF parses_as_usize(part) THEN DocPath_push(self, Index(parse_usize(part)))
  ELSE DocPath_push(self, Field(part))

RECURSIVE last_field_from(_, _)
last_field_from(tokens, n) ==
  IF n = 0 THEN <<"unknown part">>
  ELSE IF tokens[n].t = "Field" THEN tokens[n].name
  ELSE last_field_from(tokens, n - 1)

\* path.last_field().unwrap_or("unknown part")
last_field_or_unknown(self) == last_field_from(self.path_tokens, Len(self.path_tokens))

(***************************************************************************)
(* Matching rules and the matching context.  The rule predicates and the   *)
(* context live in pact_matching/src/lib.rs and matchers.rs, which are not *)
(* part of the sources at hand; they follow the specification (sections    *)
(* 4.2 and 4.5).  A Regex rule is kept as the set of values it accepts.    *)
(***************************************************************************)
Equality == [kind |-> "Equality"]
Regex(accepts) == [kind |-> "Regex", accepts |-> accepts]

EmptyRuleList == [rules |-> <<>>, rule_logic |-> "And", cascaded |-> FALSE]

\* Matches::matches_with(expected, actual, rule, cascaded)
matches_with(expected, actual, rule, cascaded) ==
  CASE rule.kind = "Equality" ->
         IF expected = actual THEN [ok |-> TRUE]
         ELSE [ok |-> FALSE, err |-> <<"Expected", actual, "to be equal to", expected>>]
    [] rule.kind = "Regex" ->
         IF actual \in rule.accepts THEN [ok |-> TRUE]
         ELSE [ok |-> FALSE, err |-> <<"Expected", actual, "to match", rule.accepts>>]

\* the errors of the rules of a list that fail, in rule order
RECURSIVE rule_errors(_, _, _, _)
rule_errors(rules, expected, actual, cascaded) ==
  IF rules = <<>> THEN <<>>
  ELSE LET r == matches_with(expected, actual, Head(rules), cascaded)
       IN (IF r.ok THEN <<>> ELSE <<r.err>>)
            \o rule_errors(Tail(rules), expected, actual, cascaded)

\* MatchingContext::matcher_is_defined
matcher_is_defined(context, path) ==
  \E i \in 1..Len(context.matchers) :
    path_weight(context.matchers[i].path, DocPath_to_vec(path))[1] > 0

\* the rule a candidate is better than: higher weight, then longer path,
\* then earlier insertion
better_matcher(context, path, i, j) ==
  LET wi == path_weight(context.matchers[i].path, DocPath_to_vec(path))
      wj == path_weight(context.matchers[j].path, DocPath_to_vec(path))
  IN \/ wi[1] > wj[1]
     \/ wi[1] = wj[1] /\ wi[2] > wj[2]
     \/ wi[1] = wj[1] /\ wi[2] = wj[2] /\ i <= j

\* MatchingContext::select_best_matcher
select_best_matcher(context, path) ==
  LET applicable == {i \in 1..Len(context.matchers) :
                       path_weight(context.matchers[i].path, DocPath_to_vec(path))[1] > 0}
  IN IF applicable = {} THEN EmptyRuleList
     ELSE LET best == CHOOSE i \in applicable :
                        \A j \in applicable : better_matcher(context, path, i, j)
          IN [context.matchers[best].list EXCEPT
                !.cascaded = Len(context.matchers[best].path.path_tokens)
                               < Len(path.path_tokens)]

\* MatchingContext::direct_matcher_defined with no restriction on the rule kinds
direct_matcher_defined(context, path) ==
  \E i \in 1..Len(context.matchers) :
    /\ context.matchers[i].path.path_tokens = path.path_tokens
    /\ context.matchers[i].list.rules # <<>>

\* matchers::match_values: Ok, or the error messages
match_values(path, matchers, expected, actual) ==
  LET errors == rule_errors(matchers.rules, expected, actual, matchers.cascaded)
  IN IF matchers.rule_logic = "And"
     THEN [ok |-> errors = <<>>, errs |-> errors]
     ELSE IF Len(errors) < Len(matchers.rules)
          THEN [ok |-> TRUE, errs |-> <<>>]
          ELSE [ok |-> FALSE, errs |-> errors]

(***************************************************************************)
(* Binary bodies (binary_utils.rs)                                         *)
(***************************************************************************)
BodyMismatch(path, mismatch) == [type |-> "BodyMismatch", path |-> path, mismatch |-> mismatch]
BodyTypeMismatch(expected_type, actual_type, message) ==
  [type |-> "BodyTypeMismatch", expected_type |-> expected_type,
   actual_type |-> actual_type, mismatch |-> message]

\* a plausible slip: Or treated as And
match_octet_stream_or_as_and(expected_body, actual_body, context) ==
  LET path == DocPath_root IN
  IF matcher_is_defined(context, path)
  THEN LET matchers == select_best_matcher(context, path) IN
       IF matchers.rules = <<>>
       THEN <<BodyMismatch(<<"$">>, <<"No matcher found for category 'body' and path", path.expr>>)>>
       ELSE LET errors == rule_errors(matchers.rules, expected_body, actual_body, matchers.cascaded)
            IN [i \in 1..Len(errors) |-> BodyMismatch(<<"$">>, errors[i])]
  ELSE IF expected_body # actual_body
       THEN <<BodyMismatch(<<"$">>, <<"Actual body", actual_body,
                                      "is not equal to the expected body", expected_body>>)>>
       ELSE <<>>

\* match_octet_stream: the list of mismatches (empty for Ok)
match_octet_stream(expected_body, actual_body, context) ==
  LET path == DocPath_root IN
  IF matcher_is_defined(context, path)
  THEN LET matchers == select_best_matcher(context, path) IN
       IF matchers.rules = <<>>
       THEN <<BodyMismatch(<<"$">>, <<"No matcher found for category 'body' and path", path.expr>>)>>
       ELSE LET errors == rule_errors(matchers.rules, expected_body, actual_body, matchers.cascaded)
            IN IF matchers.rule_logic = "And"
               THEN [i \in 1..Len(errors) |-> BodyMismatch(<<"$">>, errors[i])]
               ELSE IF Len(errors) = Len(matchers.rules)
                    THEN [i \in 1..Len(errors) |-> BodyMismatch(<<"$">>, errors[i])]
                    ELSE <<>>
  ELSE IF expected_body # actual_body
       THEN <<BodyMismatch(<<"$">>, <<"Actual body", actual_body,
                                      "is not equal to the expected body", expected_body>>)>>
       ELSE <<>>

(***************************************************************************)
(* MIME multipart bodies (binary_utils.rs).  A body is the list of its     *)
(* parts as written on the wire; a part's data and header values are       *)
(* small numbers standing for byte strings; a part's headers are the list  *)
(* of its entries in the order they were written, a header value a tuple.  *)
(* Header names are kept as single symbols.                                *)
(***************************************************************************)
MaxParts == 2       \* parts in a multipart body
NumCalls == 2       \* concurrent calls of match_mime_multipart
TickSecs == 15      \* seconds the clock advances in one step
TimeoutSecs == 30   \* recv_timeout(Duration::from_secs(30))

CallIds == 1..NumCalls

\* the headers of a part, in the order most parts drawn write them
HeaderOrder == <<"content-type", "content-disposition", "content-transfer-encoding", "x-custom">>
HeaderNames == {HeaderOrder[i] : i \in 1..Len(HeaderOrder)}

\* the Content-Transfer-Encoding values: "base64" and any other
base64 == 1
binary == 2

\* BASE64.decode of the byte strings known to the model
BASE64_decode(data) ==
  IF data \in {11, 12} THEN [ok |-> TRUE, data |-> data - 10] ELSE [ok |-> FALSE]

\* the value a raw part writes for a header, empty when it does not write it
raw_header(raw, h) ==
  CASE h = "content-type" -> IF raw.ct = 0 THEN <<>> ELSE <<raw.ct>>
    [] h = "content-disposition" -> IF raw.cd = "none" THEN <<>> ELSE <<raw.cd>> \o raw.name
    [] h = "content-transfer-encoding" -> IF raw.cte = 0 THEN <<>> ELSE <<raw.cte>>
    [] h = "x-custom" -> IF raw.x = 0 THEN <<>> ELSE <<raw.x>>

\* the HeaderMap of a part: its entries in the order they were inserted,
\* which is the order raw.order writes them in
RECURSIVE HeaderMap_from(_, _)
HeaderMap_from(raw, n) ==
  IF n = 0 THEN <<>>
  ELSE HeaderMap_from(raw, n - 1)
         \o (IF raw_header(raw, raw.order[n]) = <<>> THEN <<>>
             ELSE <<[name |-> raw.order[n], value |-> raw_header(raw, raw.order[n])]>>)

HeaderMap_of(raw) == HeaderMap_from(raw, Len(raw.order))

\* HeaderMap::keys: the names in the order of the entries
HeaderMap_keys(headers) == [i \in 1..Len(headers) |-> headers[i].name]

\* HeaderMap::get: the value of the header, the empty tuple standing for None
HeaderMap_get(headers, key) ==
  IF \E i \in 1..Len(headers) : headers[i].name = key
  THEN headers[CHOOSE i \in 1..Len(headers) : headers[i].name = key].value
  ELSE <<>>

\* one part as parse_multipart pushes it: a Field when Content-Disposition
\* carries no filename, a File otherwise ("file" and "file_g" are two
\* dispositions of the same name whose filenames differ)
MimePart(index, raw) ==
  [kind |-> IF raw.cd = "field" THEN "Field" ELSE "File",
   index |-> index,
   name |-> IF raw.cd = "none" THEN <<>> ELSE raw.name,
   content_type |-> raw.ct,
   filename |-> IF raw.cd = "file" THEN <<"f">>
                ELSE IF raw.cd = "file_g" THEN <<"g">> ELSE <<>>,
   data |-> raw.data,
   headers |-> HeaderMap_of(raw)]

\* get_multipart_boundary
get_multipart_boundary(headers) ==
  CASE headers = "none" -> [ok |-> FALSE, err |-> "no content-type header"]
    [] headers = "invalid" -> [ok |-> FALSE, err |-> "invalid content-type"]
    [] headers = "no_boundary" -> [ok |-> FALSE, err |-> "no boundary in content-type"]
    [] headers = "boundary" -> [ok |-> TRUE]

\* parse_multipart(body, headers): the parts, indexed from 0
parse_multipart(body, headers) ==
  LET boundary == get_multipart_boundary(headers)
  IN IF ~boundary.ok THEN boundary
     ELSE [ok |-> TRUE, parts |-> [i \in 1..Len(body) |-> MimePart(i - 1, body[i])]]

\* MimeField::decode_data and MimeFile::decode_data
decode_data(part) ==
  IF HeaderMap_get(part.headers, "content-transfer-encoding") # <<>>
  THEN IF HeaderMap_get(part.headers, "content-transfer-encoding") = <<base64>>
       THEN BASE64_decode(part.data)
       ELSE [ok |-> TRUE, data |-> part.data]
  ELSE [ok |-> TRUE, data |-> part.data]

\* decode_data() or, when decoding fails, the raw data
decoded_or_raw(part) == IF decode_data(part).ok THEN decode_data(part).data ELSE part.data

\* HeaderMatchingContext::new(context)
HeaderMatchingContext(context) == context

\* a plausible slip: no content-* header is ever compared
match_header_skips_content(key, path, expected, actual, context) ==
  IF key \in {"content-type", "content-disposition", "content-transfer-encoding"}
  THEN <<>>
  ELSE IF HeaderMap_get(actual, key) # <<>>
  THEN LET r == matches_with(HeaderMap_get(expected, key), HeaderMap_get(actual, key), Equality, FALSE)
       IN IF r.ok THEN <<>>
          ELSE <<BodyMismatch(DocPath_join(path, <<key>>).expr,
                              <<"MIME part", last_field_or_unknown(path),
                                <<"header", key, r.err>>>>)>>
  ELSE <<BodyMismatch(DocPath_join(path, <<key>>).expr,
                      <<"MIME part", last_field_or_unknown(path), "Expected multipart header",
                        key, HeaderMap_get(expected, key), "but was missing">>)>>

\* the mismatches match_headers collects for one header of the expected part
match_header(key, path, expected, actual, context) ==
  LET key_path == DocPath_join(path, <<key>>)
      expected_value == HeaderMap_get(expected, key)
      actual_value == HeaderMap_get(actual, key)
      part_name == last_field_or_unknown(path)
      header_context == HeaderMatchingContext(context)
  IN IF actual_value # <<>>
     THEN LET matcher_result ==
                IF direct_matcher_defined(header_context, key_path)
                THEN match_values(key_path, select_best_matcher(header_context, key_path),
                                  expected_value, actual_value)
                ELSE IF key = "content-disposition" THEN [ok |-> TRUE, errs |-> <<>>]
                ELSE LET r == matches_with(expected_value, actual_value, Equality, FALSE)
                     IN IF r.ok THEN [ok |-> TRUE, errs |-> <<>>]
                        ELSE [ok |-> FALSE, errs |-> <<<<"header", key, r.err>>>>]
          IN [i \in 1..Len(matcher_result.errs) |->
                BodyMismatch(key_path.expr, <<"MIME part", part_name, matcher_result.errs[i]>>)]
     ELSE IF key \in {"content-type", "content-disposition", "content-transfer-encoding"}
          THEN <<>>
     ELSE <<BodyMismatch(key_path.expr,
                         <<"MIME part", part_name, "Expected multipart header", key,
                           expected_value, "but was missing">>)>>

RECURSIVE match_headers_from(_, _, _, _, _)
match_headers_from(n, path, expected, actual, context) ==
  IF n > Len(HeaderMap_keys(expected)) THEN <<>>
  ELSE match_header(HeaderMap_keys(expected)[n], path, expected, actual, context)
         \o match_headers_from(n + 1, path, expected, actual, context)

\* match_headers: the list of mismatches (empty for Ok)
match_headers(path, expected, actual, context) ==
  match_headers_from(1, path, expected, actual, context)

\* the path of a part: its name, or its index when it has none
part_path(key, expected) ==
  IF key = <<>> THEN DocPath_join(DocPath_root, usize_to_string(expected.index))
  ELSE DocPath_join(DocPath_root, key)

\* a plausible slip: the header mismatches are lost when the contents differ
match_field_drops_headers(key, expected, actual, context) ==
  LET path == part_path(key, expected)
      header_result == match_headers(path, expected.headers, actual.headers, context)
      r == matches_with(decoded_or_raw(expected), decoded_or_raw(actual), Equality, FALSE)
  IN IF r.ok THEN header_result
     ELSE <<BodyMismatch(path.expr, <<"MIME part", key, r.err>>)>>

\* match_field: the list of mismatches (empty for Ok)
match_field(key, expected, actual, context) ==
  LET path == part_path(key, expected)
      expected_str == decoded_or_raw(expected)
      actual_str == decoded_or_raw(actual)
      header_result == match_headers(path, expected.headers, actual.headers, context)
      matcher_result ==
        IF matcher_is_defined(context, path)
        THEN match_values(path, select_best_matcher(context, path), expected_str, actual_str)
        ELSE LET r == matches_with(expected_str, actual_str, Equality, FALSE)
             IN IF r.ok THEN [ok |-> TRUE, errs |-> <<>>]
                ELSE [ok |-> FALSE, errs |-> <<<<"MIME part", key, r.err>>>>]
  IN header_result
       \o [i \in 1..Len(matcher_result.errs) |-> BodyMismatch(path.expr, matcher_result.errs[i])]

\* ContentType::is_unknown, for Option<Mime>::map(..).unwrap_or_default()
is_unknown(content_type) == content_type = 0
\* ContentType::is_equivalent_to
is_equivalent_to(a, b) == a = b
\* a content type with a suffix, as application/hal+json is one of
\* application/json
SuffixType == 3
\* ContentType::base_type: the type a suffix names, or the type itself
base_type(content_type) == IF content_type = SuffixType THEN 1 ELSE content_type

RECURSIVE build_child_from(_, _)
build_child_from(child_path, tokens) ==
  IF tokens = <<>> THEN child_path
  ELSE build_child_from(DocPath_push(child_path, Head(tokens)), Tail(tokens))

\* child_path: Root followed by the rule path's tokens after the part's
build_child_path(p, path) ==
  build_child_from(DocPath_root, SubSeq(p.path_tokens, Len(path.path_tokens) + 1,
                                        Len(p.path_tokens)))

\* the rule of the part's category re-rooted at the part, or nothing when
\* the part's path does not match the rule's path
RECURSIVE child_rules(_, _)
child_rules(matchers, path) ==
  IF matchers = <<>> THEN <<>>
  ELSE LET p == Head(matchers).path IN
       (IF matches_path(path, DocPath_to_vec(p))
        THEN <<[path |-> build_child_path(p, path), list |-> Head(matchers).list]>>
        ELSE <<>>)
         \o child_rules(Tail(matchers), path)

\* compare_bodies for a binary body, and BodyMatchResult::mismatches
compare_bodies(content_type, expected_body, actual_body, context) ==
  match_octet_stream(expected_body, actual_body, context)

\* match_file_part: the list of mismatches (empty for Ok)
match_file_part(key, expected, actual, context) ==
  LET part_name == IF key = <<>> THEN usize_to_string(expected.index) ELSE key
      path == part_path(key, expected)
      header_result == match_headers(path, expected.headers, actual.headers, context)
      expected_content_type == expected.content_type
      actual_content_type == actual.content_type
      matcher_result ==
        IF \/ is_unknown(expected_content_type) \/ is_unknown(actual_content_type)
           \/ is_equivalent_to(expected_content_type, actual_content_type)
           \/ is_equivalent_to(expected_content_type, base_type(actual_content_type))
        THEN compare_bodies(expected_content_type, decoded_or_raw(expected),
                            decoded_or_raw(actual),
                            [context EXCEPT !.matchers = child_rules(context.matchers, path)])
        ELSE <<BodyTypeMismatch(expected_content_type, actual_content_type,
                                <<"MIME part", part_name, "Expected a body of",
                                  expected_content_type, "but the actual content type was",
                                  actual_content_type>>)>>
  IN header_result
       \o [i \in 1..Len(matcher_result) |->
             IF matcher_result[i].type = "BodyMismatch"
             THEN BodyMismatch(matcher_result[i].path,
                               <<"MIME part", part_name, matcher_result[i].mismatch>>)
             ELSE matcher_result[i]]

\* match_mime_part: the list of mismatches (empty for Ok)
match_mime_part(expected, actual, context) ==
  LET key == expected.name IN
  CASE expected.kind = "Field" /\ actual.kind = "Field" ->
         match_field(key, expected, actual, context)
    [] expected.kind = "File" /\ actual.kind = "File" ->
         match_file_part(key, expected, actual, context)
    [] expected.kind = "Field" /\ actual.kind = "File" ->
         <<BodyMismatch(<<"$">>, <<"Expected a MIME field", key, "but was file">>)>>
    [] expected.kind = "File" /\ actual.kind = "Field" ->
         <<BodyMismatch(<<"$">>, <<"Expected a MIME file", key, "but was field">>)>>

\* the closure given to actual_parts.iter().find(..)
part_found(part, expected_part) ==
  IF part.name = <<>> THEN part.index = expected_part.index
  ELSE part.name = expected_part.name

\* position of the first actual part the closure accepts, 0 when there is none
find_actual_part(actual_parts, expected_part) ==
  LET found == {k \in 1..Len(actual_parts) : part_found(actual_parts[k], expected_part)}
  IN IF found = {} THEN 0 ELSE CHOOSE k \in found : \A j \in found : k <= j

\* one turn of the loop over the expected parts
match_expected_part(expected_part, actual_parts, context) ==
  LET k == find_actual_part(actual_parts, expected_part)
  IN IF k # 0 THEN match_mime_part(expected_part, actual_parts[k], context)
     ELSE <<BodyMismatch(<<"$">>, <<"Expected a MIME part", expected_part.name,
                                    "but was missing">>)>>

\* a plausible slip: only the first failure is reported
parse_failures_first(expected_parts, actual_parts) ==
  IF ~expected_parts.ok
  THEN <<BodyMismatch(<<"$">>, <<"Failed to parse the expected body as a MIME multipart body",
                                 expected_parts.err>>)>>
  ELSE IF ~actual_parts.ok
  THEN <<BodyMismatch(<<"$">>, <<"Failed to parse the actual body as a MIME multipart body",
                                 actual_parts.err>>)>>
  ELSE <<>>

\* the mismatches pushed when either body fails to parse
parse_failures(expected_parts, actual_parts) ==
  (IF ~expected_parts.ok
   THEN <<BodyMismatch(<<"$">>, <<"Failed to parse the expected body as a MIME multipart body",
                                  expected_parts.err>>)>>
   ELSE <<>>)
    \o (IF ~actual_parts.ok
        THEN <<BodyMismatch(<<"$">>, <<"Failed to parse the actual body as a MIME multipart body",
                                       actual_parts.err>>)>>
        ELSE <<>>)

\* a plausible slip: the loop is left after its first turn
more_parts_none(n, expected_parts) == FALSE

\* the loop over the expected parts goes on after part n
more_parts(n, expected_parts) == n < Len(expected_parts)

RECURSIVE match_parts_from(_, _, _, _)
match_parts_from(n, expected_parts, actual_parts, context) ==
  IF n > Len(expected_parts) THEN <<>>
  ELSE match_expected_part(expected_parts[n], actual_parts, context)
         \o match_parts_from(n + 1, expected_parts, actual_parts, context)

\* match_mime_multipart_inner as a whole: the mismatches it returns
match_mime_multipart_inner(context, expected, actual) ==
  LET actual_parts == parse_multipart(actual.body, actual.headers)
      expected_parts == parse_multipart(expected.body, expected.headers)
  IN IF ~expected_parts.ok \/ ~actual_parts.ok
     THEN parse_failures(expected_parts, actual_parts)
     ELSE match_parts_from(1, expected_parts.parts, actual_parts.parts, context)

(***************************************************************************)
(* match_mime_multipart: the caller clones its inputs, spawns a thread     *)
(* that runs match_mime_multipart_inner and sends the result over a        *)
(* channel of its own, and waits on the channel for at most TimeoutSecs.   *)
(***************************************************************************)
Range(f) == {f[i] : i \in DOMAIN f}

\* the parts a body may hold, grouped by what they exercise
RawPart(cds, names, cts, datas, xs, ctes) ==
  [cd : cds, name : names, ct : cts, data : datas, x : xs, cte : ctes, order : {HeaderOrder}]

\* x-custom written first, content-type last
ReverseOrder ==
  <<"x-custom", "content-transfer-encoding", "content-disposition", "content-type">>

NamedParts == RawPart({"field"}, {<<>>, <<"a">>}, {0}, {1, 2}, {0}, {0})
FieldParts == RawPart({"field"}, {<<"a">>}, {1, 2}, {1, 2}, {0}, {0})
FileParts == RawPart({"file"}, {<<"a">>}, {1, 2}, {1, 2}, {0}, {0})
KindParts == RawPart({"field", "file"}, {<<"a">>}, {0}, {1}, {0}, {0})
              \cup RawPart({"none"}, {<<>>}, {0}, {1}, {0}, {0})
CustomParts == RawPart({"field"}, {<<"a">>}, {0}, {1}, {0, 1, 2}, {0})
EncodedParts == RawPart({"field"}, {<<"a">>}, {0}, {1}, {0}, {0, binary})
                 \cup RawPart({"field"}, {<<"a">>}, {0}, {11}, {0}, {base64})
RuleParts == RawPart({"field"}, {<<"a">>}, {0}, {1, 2}, {0}, {0})
              \cup RawPart({"file"}, {<<"a">>}, {0}, {2}, {0}, {0})

\* parts with two headers that may differ, written in either order
OrderParts ==
  RawPart({"field"}, {<<"a">>}, {1, 2}, {1}, {1}, {0})
    \cup {[p EXCEPT !.order = ReverseOrder] :
            p \in RawPart({"field"}, {<<"a">>}, {2}, {1}, {2}, {0})}
\* files of a content type and of a type with that type as its base
SuffixParts ==
  RawPart({"file"}, {<<"a">>}, {1}, {1}, {0}, {0})
    \cup RawPart({"file"}, {<<"a">>}, {SuffixType}, {1, 2}, {0}, {0})

HeaderStates == {"none", "invalid", "no_boundary", "boundary"}

NoRules == [matchers |-> <<>>]
RuleLists ==
  {[rules |-> <<Regex({1})>>, rule_logic |-> "And", cascaded |-> FALSE],
   [rules |-> <<Regex({1}), Regex({2})>>, rule_logic |-> "And", cascaded |-> FALSE],
   [rules |-> <<Regex({1}), Regex({2})>>, rule_logic |-> "Or", cascaded |-> FALSE],
   [rules |-> <<Regex({1}), Regex({1})>>, rule_logic |-> "Or", cascaded |-> FALSE]}
RuleContexts ==
  {[matchers |-> <<[path |-> DocPath_from_tokens(<<Root, Field(<<"a">>)>>), list |-> l]>>] :
     l \in RuleLists}

\* two values a header of part "a" takes in the parts drawn
HeaderRuleValues(key) ==
  IF key = "content-disposition" THEN <<<<"file", "a">>, <<"file_g", "a">>>>
  ELSE <<<<1>>, <<2>>>>

\* rule lists for a header: one rule that accepts the first value alone,
\* and a rule for each value under And (no value passes both) and under Or
\* (either value passes)
HeaderRuleLists(key) ==
  {[rules |-> <<Regex({HeaderRuleValues(key)[1]})>>, rule_logic |-> "And", cascaded |-> FALSE]}
    \cup {[rules |-> <<Regex({HeaderRuleValues(key)[1]}), Regex({HeaderRuleValues(key)[2]})>>,
            rule_logic |-> l, cascaded |-> FALSE] : l \in {"And", "Or"}}

\* contexts with a rule defined directly on one header of part "a"
RulesOn(keys) ==
  {[matchers |-> <<[path |-> DocPath_from_tokens(<<Root, Field(<<"a">>), Field(<<key>>)>>),
                    list |-> list]>>] :
     <<key, list>> \in UNION {{key} \X HeaderRuleLists(key) : key \in keys}}

HeaderRuleContexts == RulesOn(HeaderNames)

\* files whose Content-Type, Content-Disposition and
\* Content-Transfer-Encoding may each differ from the partner's, and a part
\* that writes none of the three
ContentParts ==
  RawPart({"file", "file_g"}, {<<"a">>}, {1, 2}, {1}, {0}, {0, base64, binary})
    \cup RawPart({"none"}, {<<>>}, {0}, {1}, {0}, {0})

InputsOf(parts, contexts) ==
  [expected : [headers : {"boundary"}, body : SeqsUpTo(parts, MaxParts)],
   actual : [headers : {"boundary"}, body : SeqsUpTo(parts, MaxParts)],
   context : contexts]

\* bodies of one part each
PairsOf(parts, contexts) ==
  [expected : [headers : {"boundary"}, body : {<<p>> : p \in parts}],
   actual : [headers : {"boundary"}, body : {<<p>> : p \in parts}],
   context : contexts]

UnparsedInputs ==
  [expected : [headers : HeaderStates, body : {<<>>}],
   actual : [headers : HeaderStates, body : {<<>>}],
   context : {NoRules}]

MimeInputs ==
  InputsOf(NamedParts, {NoRules}) \cup InputsOf(FieldParts, {NoRules})
    \cup InputsOf(FileParts, {NoRules}) \cup InputsOf(KindParts, {NoRules})
    \cup InputsOf(CustomParts, {NoRules} \cup RulesOn({"x-custom"}))
    \cup InputsOf(EncodedParts, {NoRules})
    \cup PairsOf(ContentParts, {NoRules} \cup HeaderRuleContexts)
    \cup InputsOf(RuleParts, RuleContexts) \cup InputsOf(OrderParts, {NoRules})
    \cup InputsOf(SuffixParts, {NoRules}) \cup UnparsedInputs

\* the inputs of calls that run side by side
ConcInputs ==
  {in \in InputsOf(RawPart({"field"}, {<<"a">>}, {0}, {1, 2}, {0}, {0}), {NoRules}) :
     /\ Len(in.expected.body) = 1 /\ in.expected.body[1].data = 1
     /\ Len(in.actual.body) = 1}

NoResult == [ok |-> TRUE, mismatches |-> <<>>, from |-> "none"]
NoParts == [ok |-> TRUE, parts |-> <<>>]

NewCall(in) ==
  [pc |-> "ready", expected |-> in.expected, actual |-> in.actual, context |-> in.context,
   elapsed |-> 0, chan |-> <<>>, result |-> NoResult]
UnusedCall == [NewCall(CHOOSE in \in UnparsedInputs : TRUE) EXCEPT !.pc = "unused"]

NoTask ==
  [pc |-> "none", expected |-> UnusedCall.expected, actual |-> UnusedCall.actual,
   context |-> NoRules, expected_parts |-> NoParts, actual_parts |-> NoParts,
   next |-> 1, mismatches |-> <<>>, compared |-> <<>>]

InitMime ==
  /\ \E in \in MimeInputs :
       call = [c \in CallIds |-> IF c = 1 THEN NewCall(in) ELSE UnusedCall]
  /\ task = [c \in CallIds |-> NoTask]

\* the inputs of the calls whose waiting is followed to its end
TimedInputs == InputsOf(KindParts, {NoRules}) \cup UnparsedInputs

InitTimed ==
  /\ \E in \in TimedInputs :
       call = [c \in CallIds |-> IF c = 1 THEN NewCall(in) ELSE UnusedCall]
  /\ task = [c \in CallIds |-> NoTask]

InitConc ==
  /\ call \in [CallIds -> {NewCall(in) : in \in ConcInputs}]
  /\ task = [c \in CallIds |-> NoTask]

\* a plausible slip: one channel shared by every call
channel_of_shared(c) == 1

\* the channel a call creates: its own
channel_of(c) == c

\* a plausible slip: the error of the wait is swallowed
timeout_error_none(err) == <<>>

\* the error recv_timeout returns is turned into one mismatch
timeout_error(err) ==
  <<BodyMismatch(<<"$">>, <<"Timeout error, failed to parse the expected body as a MIME multipart body", err>>)>>

\* match_mime_multipart up to thread::spawn: the thread owns clones of the inputs
Call(c) ==
  /\ call[c].pc = "ready"
  /\ call' = [call EXCEPT ![c].pc = "waiting"]
  /\ task' = [task EXCEPT ![c] = [NoTask EXCEPT !.pc = "spawned",
                                                !.expected = call[c].expected,
                                                !.actual = call[c].actual,
                                                !.context = call[c].context]]
  /\ UNCHANGED <<pathVars, pactVars, evalVars>>

\* the thread has a runtime and enters match_mime_multipart_inner
TaskStart(c) ==
  /\ task[c].pc = "spawned"
  /\ task' = [task EXCEPT ![c].pc = "parsing"]
  /\ UNCHANGED <<call, pathVars, pactVars, evalVars>>

\* building the runtime fails: the thread ends without sending
TaskPanic(c) ==
  /\ task[c].pc = "spawned"
  /\ task' = [task EXCEPT ![c].pc = "dead"]
  /\ UNCHANGED <<call, pathVars, pactVars, evalVars>>

\* both bodies are parsed, the actual one first
TaskParse(c) ==
  /\ task[c].pc = "parsing"
  /\ LET actual_parts == parse_multipart(task[c].actual.body, task[c].actual.headers)
         expected_parts == parse_multipart(task[c].expected.body, task[c].expected.headers)
     IN task' = [task EXCEPT
          ![c].actual_parts = actual_parts,
          ![c].expected_parts = expected_parts,
          ![c].mismatches = parse_failures(expected_parts, actual_parts),
          ![c].pc = IF expected_parts.ok /\ actual_parts.ok /\ expected_parts.parts # <<>>
                    THEN "matching" ELSE "send"]
  /\ UNCHANGED <<call, pathVars, pactVars, evalVars>>

\* one turn of the loop over the expected parts
TaskMatchPart(c) ==
  /\ task[c].pc = "matching"
  /\ LET expected_part == task[c].expected_parts.parts[task[c].next]
         actual_parts == task[c].actual_parts.parts
     IN task' = [task EXCEPT
          ![c].mismatches = @ \o match_expected_part(expected_part, actual_parts, task[c].context),
          ![c].compared = Append(@, find_actual_part(actual_parts, expected_part)),
          ![c].next = @ + 1,
          ![c].pc = IF more_parts(task[c].next, task[c].expected_parts.parts)
                    THEN "matching" ELSE "send"]
  /\ UNCHANGED <<call, pathVars, pactVars, evalVars>>

\* sender.send(result): lost when the receiver is gone
TaskSend(c) ==
  /\ task[c].pc = "send"
  /\ task' = [task EXCEPT ![c].pc = "finished"]
  /\ call' = IF call[channel_of(c)].pc = "waiting"
             THEN [call EXCEPT ![channel_of(c)].chan = Append(@, task[c].mismatches)]
             ELSE call
  /\ UNCHANGED <<pathVars, pactVars, evalVars>>

\* recv_timeout returns the message
Recv(c) ==
  /\ call[c].pc = "waiting"
  /\ call[c].chan # <<>>
  /\ call' = [call EXCEPT ![c].pc = "returned",
                          ![c].chan = Tail(@),
                          ![c].result = [ok |-> Head(call[c].chan) = <<>>,
                                         mismatches |-> Head(call[c].chan),
                                         from |-> "task"]]
  /\ UNCHANGED <<task, pathVars, pactVars, evalVars>>

\* recv_timeout gives up: RecvTimeoutError::Timeout
Timeout(c) ==
  /\ call[c].pc = "waiting"
  /\ call[c].chan = <<>>
  /\ call[c].elapsed >= TimeoutSecs
  /\ call' = [call EXCEPT ![c].pc = "returned",
                          ![c].result = [ok |-> FALSE,
                                         mismatches |-> timeout_error("timed out waiting on channel"),
                                         from |-> "timeout"]]
  /\ UNCHANGED <<task, pathVars, pactVars, evalVars>>

\* the sender was dropped with nothing sent: RecvTimeoutError::Disconnected
Disconnected(c) ==
  /\ call[c].pc = "waiting"
  /\ call[c].chan = <<>>
  /\ \A t \in CallIds : channel_of(t) = c => task[t].pc \in {"dead", "finished"}
  /\ call' = [call EXCEPT ![c].pc = "returned",
                          ![c].result = [ok |-> FALSE,
                                         mismatches |-> timeout_error("channel is empty and sending half is closed"),
                                         from |-> "disconnected"]]
  /\ UNCHANGED <<task, pathVars, pactVars, evalVars>>

\* time passes while the caller waits
Tick(c) ==
  /\ call[c].pc = "waiting"
  /\ call[c].elapsed < TimeoutSecs
  /\ call' = [call EXCEPT ![c].elapsed =
                IF @ + TickSecs > TimeoutSecs THEN TimeoutSecs ELSE @ + TickSecs]
  /\ UNCHANGED <<task, pathVars, pactVars, evalVars>>

MimeNext ==
  \E c \in CallIds :
    \/ Call(c) \/ TaskStart(c) \/ TaskPanic(c) \/ TaskParse(c) \/ TaskMatchPart(c)
    \/ TaskSend(c) \/ Recv(c) \/ Timeout(c) \/ Disconnected(c) \/ Tick(c)

(***************************************************************************)
(* Functions that keep no state: eval holds the function applied, its      *)
(* input and, once applied, its output.                                    *)
(***************************************************************************)
NewEval(f, in) == [f |-> f, in |-> in, done |-> FALSE]
Applied(f, out) ==
  /\ eval.f = f
  /\ ~eval.done
  /\ eval' = [f |-> f, in |-> eval.in, done |-> TRUE, out |-> out]
  /\ UNCHANGED <<pathVars, pactVars, mimeVars>>

MaxRules == 2       \* rules in a rule list

OctetBodies == {1, 2}
OctetRules == {Regex({1}), Regex({2}), Equality}
OctetContexts ==
  {NoRules} \cup
  {[matchers |-> <<[path |-> p,
                    list |-> [rules |-> rs, rule_logic |-> l, cascaded |-> FALSE]]>>] :
     p \in {DocPath_root, DocPath_from_tokens(<<Root, Field(<<"a">>)>>)},
     rs \in SeqsUpTo(OctetRules, MaxRules), l \in {"And", "Or"}}
OctetInputs == [expected_body : OctetBodies, actual_body : OctetBodies, context : OctetContexts]

InitOctet == \E in \in OctetInputs : eval = NewEval("match_octet_stream", in)

MatchOctetStream ==
  Applied("match_octet_stream",
          match_octet_stream(eval.in.expected_body, eval.in.actual_body, eval.in.context))

(***************************************************************************)
(* DocPath constructors and operations applied in any order.  docPath is   *)
(* the path at hand and eval names the constructor it came from.           *)
(***************************************************************************)
\* DocPath::new: the expression is kept as given
DocPath_new(expr) ==
  LET r == parse_path_exp(expr)
  IN IF r.ok THEN [ok |-> TRUE, path |-> [path_tokens |-> r.tokens, expr |-> expr]]
     ELSE [ok |-> FALSE]

DocPath_empty == [path_tokens |-> <<>>, expr |-> <<>>]

DocPath_push_field(self, field) ==
  [path_tokens |-> Append(self.path_tokens, Field(field)),
   expr |-> write_obj_key_for_path(self.expr, field)]

DocPath_push_index(self, index) ==
  [path_tokens |-> Append(self.path_tokens, Index(index)),
   expr |-> self.expr \o <<"[">> \o usize_to_string(index) \o <<"]">>]

DocPath_push_star(self) ==
  [path_tokens |-> Append(self.path_tokens, Star), expr |-> self.expr \o <<".", "*">>]

DocPath_push_star_index(self) ==
  [path_tokens |-> Append(self.path_tokens, StarIndex), expr |-> self.expr \o <<"[", "*", "]">>]

RECURSIVE push_path_from(_, _, _)
push_path_from(self, tokens, i) ==
  IF i > Len(tokens) THEN self
  ELSE push_path_from(IF tokens[i] # Root THEN DocPath_push(self, tokens[i]) ELSE self,
                      tokens, i + 1)

DocPath_push_path(self, path) == push_path_from(self, path.path_tokens, 1)

\* the last token replaced, the expression rendered again
replace_last(self, token) ==
  DocPath_from_tokens(Append(SubSeq(self.path_tokens, 1, Len(self.path_tokens) - 1), token))

DocPath_last_is_star(self) ==
  /\ self.path_tokens # <<>>
  /\ self.path_tokens[Len(self.path_tokens)].t \in {"Star", "StarIndex"}

DocPath_join_index(self, index) ==
  IF DocPath_last_is_star(self) THEN replace_last(self, Index(index))
  ELSE DocPath_push_index(self, index)

DocPath_join_field(self, name) ==
  IF DocPath_last_is_star(self) THEN replace_last(self, Field(name))
  ELSE DocPath_push_field(self, name)

DocPath_parent_of_root(self) ==
  IF Len(self.path_tokens) = 0 THEN [some |-> FALSE]
  ELSE [some |-> TRUE,
        path |-> DocPath_from_tokens(SubSeq(self.path_tokens, 1, Len(self.path_tokens) - 1))]

\* None for a path of at most one token
DocPath_parent(self) ==
  IF Len(self.path_tokens) <= 1 THEN [some |-> FALSE]
  ELSE [some |-> TRUE,
        path |-> DocPath_from_tokens(SubSeq(self.path_tokens, 1, Len(self.path_tokens) - 1))]

\* str::to_lowercase of the letters drawn
str_to_lowercase(s) == [i \in 1..Len(s) |-> IF s[i] = "A" THEN "a" ELSE s[i]]

DocPath_to_lower_case(self) ==
  [path_tokens |->
     [i \in 1..Len(self.path_tokens) |->
        IF self.path_tokens[i].t = "Field"
        THEN Field(str_to_lowercase(self.path_tokens[i].name))
        ELSE self.path_tokens[i]],
   expr |-> str_to_lowercase(self.expr)]

\* PartialEq for DocPath
DocPath_eq(self, other) == self.expr = other.expr

DocTokens == {Root, Field(<<"a">>), Index(0), Star, StarIndex}
DocExprs == {<<>>, <<"$">>, <<"a">>, <<"$", ".", "a">>, <<"$", "[", "*", "]">>,
             <<"[", "0", "]">>, <<"$", ".">>, <<"$", ".", "A">>, <<"$", "[", "'", "a", "'", "]">>}
DocParts == {<<"a">>, <<"0">>, <<"*">>, <<"[", "*", "]">>, TooLarge}
DocOthers == {DocPath_root, DocPath_from_tokens(<<Root, Field(<<"a">>), Star>>),
              DocPath_from_tokens(<<Index(0)>>)}
DocTokenLists == SeqsUpTo(DocTokens, MaxTokens)

DocConstructors == {"new", "empty", "root", "from_tokens"}

\* the constructor the path came from, whether it gave a path that begins
\* with Root, and the operation applied last with the path it was applied
\* to and the tokens handed to it
Origin(name, path) ==
  [f |-> "DocPath", origin |-> name, op |-> name,
   rooted |-> path.path_tokens # <<>> /\ path.path_tokens[1] = Root,
   self |-> path, arg |-> <<>>]
Op(name, arg) == [eval EXCEPT !.op = name, !.self = docPath, !.arg = arg]

InitDocPath ==
  /\ docPath = DocPath_root
  /\ parsed = NoParse
  /\ eval = Origin("root", DocPath_root)

HasRoom(n) == Len(docPath.path_tokens) + n <= MaxTokens + 1

DocNew ==
  /\ \E expr \in DocExprs :
       /\ DocPath_new(expr).ok
       /\ docPath' = DocPath_new(expr).path
  /\ eval' = Origin("new", docPath')
  /\ UNCHANGED <<parsed, pactVars, mimeVars>>

DocEmpty ==
  /\ docPath' = DocPath_empty
  /\ eval' = Origin("empty", docPath')
  /\ UNCHANGED <<parsed, pactVars, mimeVars>>

DocRoot ==
  /\ docPath' = DocPath_root
  /\ eval' = Origin("root", docPath')
  /\ UNCHANGED <<parsed, pactVars, mimeVars>>

DocFromTokens ==
  /\ \E tokens \in DocTokenLists : docPath' = DocPath_from_tokens(tokens)
  /\ eval' = Origin("from_tokens", docPath')
  /\ UNCHANGED <<parsed, pactVars, mimeVars>>

DocPush ==
  /\ HasRoom(1)
  /\ \E token \in DocTokens :
       /\ docPath' = DocPath_push(docPath, token)
       /\ eval' = Op("push", <<token>>)
  /\ UNCHANGED <<parsed, pactVars, mimeVars>>

DocPushField ==
  /\ HasRoom(1)
  /\ docPath' = DocPath_push_field(docPath, <<"a">>)
  /\ eval' = Op("push_field", <<Field(<<"a">>)>>)
  /\ UNCHANGED <<parsed, pactVars, mimeVars>>

DocPushIndex ==
  /\ HasRoom(1)
  /\ docPath' = DocPath_push_index(docPath, 0)
  /\ eval' = Op("push_index", <<Index(0)>>)
  /\ UNCHANGED <<parsed, pactVars, mimeVars>>

DocPushStar ==
  /\ HasRoom(1)
  /\ docPath' = DocPath_push_star(docPath)
  /\ eval' = Op("push_star", <<Star>>)
  /\ UNCHANGED <<parsed, pactVars, mimeVars>>

DocPushStarIndex ==
  /\ HasRoom(1)
  /\ docPath' = DocPath_push_star_index(docPath)
  /\ eval' = Op("push_star_index", <<StarIndex>>)
  /\ UNCHANGED <<parsed, pactVars, mimeVars>>

DocPushPath ==
  /\ \E other \in DocOthers :
       /\ HasRoom(Len(other.path_tokens))
       /\ docPath' = DocPath_push_path(docPath, other)
       /\ eval' = Op("push_path", other.path_tokens)
  /\ UNCHANGED <<parsed, pactVars, mimeVars>>

DocJoin ==
  /\ HasRoom(1)
  /\ \E part \in DocParts : docPath' = DocPath_join(docPath, part)
  /\ eval' = Op("join", <<>>)
  /\ UNCHANGED <<parsed, pactVars, mimeVars>>

DocJoinField ==
  /\ HasRoom(1)
  /\ docPath' = DocPath_join_field(docPath, <<"a">>)
  /\ eval' = Op("join_field", <<>>)
  /\ UNCHANGED <<parsed, pactVars, mimeVars>>

DocJoinIndex ==
  /\ HasRoom(1)
  /\ docPath' = DocPath_join_index(docPath, 0)
  /\ eval' = Op("join_index", <<>>)
  /\ UNCHANGED <<parsed, pactVars, mimeVars>>

DocParent ==
  /\ DocPath_parent(docPath).some
  /\ docPath' = DocPath_parent(docPath).path
  /\ eval' = Op("parent", <<>>)
  /\ UNCHANGED <<parsed, pactVars, mimeVars>>

DocToLowerCase ==
  /\ docPath' = DocPath_to_lower_case(docPath)
  /\ eval' = Op("to_lower_case", <<>>)
  /\ UNCHANGED <<parsed, pactVars, mimeVars>>

DocPathNext ==
  \/ DocNew \/ DocEmpty \/ DocRoot \/ DocFromTokens
  \/ DocPush \/ DocPushField \/ DocPushIndex \/ DocPushStar \/ DocPushStarIndex
  \/ DocPushPath \/ DocJoin \/ DocJoinField \/ DocJoinIndex \/ DocParent
  \/ DocToLowerCase

(***************************************************************************)
(* path_weight and matches_path applied to a path expression and concrete  *)
(* paths: eval holds the expression, the path, the fragments appended to   *)
(* it and the results of the calls made so far.                            *)
(***************************************************************************)
WeightTokens == {Root, Field(<<"a">>), Field(<<"1">>), Index(1), Star, StarIndex}
WeightFragments == {<<"$">>, <<"a">>, <<"1">>, <<"+", "1">>, <<"[", "*", "]">>, TooLarge}
WeightMore == {<<>>, <<<<"a">>>>, <<<<"1">>>>}
WeightInputs ==
  [self : {DocPath_from_tokens(tokens) : tokens \in SeqsUpTo(WeightTokens, MaxTokens)},
   path : SeqsUpTo(WeightFragments, MaxTokens),
   more : WeightMore]

InitWeight ==
  \E in \in WeightInputs :
    eval = [f |-> "path_weight", in |-> in, calls |-> 0,
            weight |-> <<>>, matches |-> FALSE, longer |-> <<>>]

\* self.path_weight(path)
PathWeight ==
  /\ eval.f = "path_weight" /\ eval.calls = 0
  /\ eval' = [eval EXCEPT !.calls = 1, !.weight = path_weight(eval.in.self, eval.in.path)]
  /\ UNCHANGED <<pathVars, pactVars, mimeVars>>

\* self.matches_path(path)
MatchesPath ==
  /\ eval.f = "path_weight" /\ eval.calls = 1
  /\ eval' = [eval EXCEPT !.calls = 2, !.matches = matches_path(eval.in.self, eval.in.path)]
  /\ UNCHANGED <<pathVars, pactVars, mimeVars>>

\* self.path_weight(path ++ more)
PathWeightLonger ==
  /\ eval.f = "path_weight" /\ eval.calls = 2
  /\ eval' = [eval EXCEPT !.calls = 3,
                          !.longer = path_weight(eval.in.self, eval.in.path \o eval.in.more)]
  /\ UNCHANGED <<pathVars, pactVars, mimeVars>>

WeightNext == PathWeight \/ MatchesPath \/ PathWeightLonger

(***************************************************************************)
(* parse_path_exp applied to an expression, and to the same expression     *)
(* after "$."                                                              *)
(***************************************************************************)
MaxExprLen == 4     \* characters in a parsed expression

ParseChars == {"$", ".", "[", "]", "'", "*", "a", "1", "_", "!"}
ParseExprs == SeqsUpTo(ParseChars, MaxExprLen)
NoParseResult == [ok |-> FALSE, msg |-> "not called", ch |-> "", index |-> -1, path |-> <<>>]

InitParse ==
  \E expr \in ParseExprs :
    eval = [f |-> "parse_path_exp", in |-> expr, calls |-> 0,
            out |-> NoParseResult, rooted |-> NoParseResult]

\* parse_path_exp(expr)
ParsePathExp ==
  /\ eval.f = "parse_path_exp" /\ eval.calls = 0
  /\ eval' = [eval EXCEPT !.calls = 1, !.out = parse_path_exp(eval.in)]
  /\ UNCHANGED <<pathVars, pactVars, mimeVars>>

\* parse_path_exp("$." + expr)
ParseWithRoot ==
  /\ eval.f = "parse_path_exp" /\ eval.calls = 1
  /\ eval' = [eval EXCEPT !.calls = 2, !.rooted = parse_path_exp(<<"$", ".">> \o eval.in)]
  /\ UNCHANGED <<pathVars, pactVars, mimeVars>>

ParseNext == ParsePathExp \/ ParseWithRoot

(***************************************************************************)
(* Headers written to JSON and read back (json_utils.rs, headers.rs).  A   *)
(* header value is a sequence of characters, a header name is one symbol.  *)
(***************************************************************************)
MaxHeaderValues == 2    \* values of one header

SINGLE_VALUE_HEADERS ==
  {"date", "accept-datetime", "if-modified-since", "if-unmodified-since", "expires",
   "retry-after", "last-modified", "set-cookie", "user-agent"}

\* str::to_lowercase of the header names drawn
to_lowercase(name) ==
  CASE name = "Set-Cookie" -> "set-cookie"
    [] name = "SET-COOKIE" -> "set-cookie"
    [] name = "X-Test" -> "x-test"
    [] name = "User-Agent" -> "user-agent"
    [] name = "Last-Modified" -> "last-modified"
    [] name = "Accept" -> "accept"
    [] OTHER -> name

\* char::is_whitespace of the characters drawn
is_whitespace(ch) == ch \in {" ", "\t"}

RECURSIVE trim_start(_)
trim_start(s) == IF s # <<>> /\ is_whitespace(Head(s)) THEN trim_start(Tail(s)) ELSE s

RECURSIVE trim_end(_)
trim_end(s) ==
  IF s # <<>> /\ is_whitespace(s[Len(s)]) THEN trim_end(SubSeq(s, 1, Len(s) - 1)) ELSE s

\* str::trim
trim(s) == trim_end(trim_start(s))

\* str::split(','): the pieces between the commas, at least one
RECURSIVE split_comma(_, _, _)
split_comma(s, i, piece) ==
  IF i > Len(s) THEN <<piece>>
  ELSE IF s[i] = "," THEN <<piece>> \o split_comma(s, i + 1, <<>>)
  ELSE split_comma(s, i + 1, Append(piece, s[i]))

\* [String]::join(", ")
RECURSIVE join_comma(_)
join_comma(values) ==
  IF values = <<>> THEN <<>>
  ELSE IF Len(values) = 1 THEN values[1]
  ELSE values[1] \o <<",", " ">> \o join_comma(Tail(values))

parse_header_splits_always(name, value) ==
  LET pieces == split_comma(value, 1, <<>>)
  IN [i \in 1..Len(pieces) |-> trim(pieces[i])]

parse_header(name, value) ==
  IF to_lowercase(name) \in SINGLE_VALUE_HEADERS THEN <<trim(value)>>
  ELSE LET pieces == split_comma(value, 1, <<>>)
       IN [i \in 1..Len(pieces) |-> trim(pieces[i])]

\* serde_json values
JString(s) == [t |-> "String", s |-> s]
JArray(v) == [t |-> "Array", v |-> v]
JObject(m) == [t |-> "Object", m |-> m]
JNull == [t |-> "Null"]
JNumber(n) == [t |-> "Number", n |-> n]
JBool(b) == [t |-> "Bool", b |-> b]

\* the characters of the keys of the objects drawn
KeyChars(key) ==
  CASE key = "A" -> <<"A">>
    [] key = "a" -> <<"a">>
    [] key = "b" -> <<"b">>
    [] key = "k" -> <<"k">>
    [] key = "name" -> <<"n", "a", "m", "e">>
    [] key = "body" -> <<"b", "o", "d", "y">>

\* the keys of a serde_json map come in the order of their bytes
JsonKeyOrder == <<"A", "a", "b", "body", "k", "name">>
json_keys(map) == SelectSeq(JsonKeyOrder, LAMBDA k : k \in DOMAIN map)

\* the escapes serde_json writes inside a string
RECURSIVE escape_json(_)
escape_json(s) ==
  IF s = <<>> THEN <<>>
  ELSE (CASE Head(s) = "\"" -> <<"\\", "\"">>
          [] Head(s) = "\\" -> <<"\\", "\\">>
          [] Head(s) = "\t" -> <<"\\", "t">>
          [] OTHER -> <<Head(s)>>) \o escape_json(Tail(s))

\* serde_json::to_string, which is Value::to_string: compact JSON text
RECURSIVE Value_text(_)
RECURSIVE array_text(_, _)
RECURSIVE object_text(_, _, _)
Value_text(val) ==
  CASE val.t = "String" -> <<"\"">> \o escape_json(val.s) \o <<"\"">>
    [] val.t = "Number" -> usize_to_string(val.n)
    [] val.t = "Bool" -> IF val.b THEN <<"t", "r", "u", "e">> ELSE <<"f", "a", "l", "s", "e">>
    [] val.t = "Null" -> <<"n", "u", "l", "l">>
    [] val.t = "Array" -> <<"[">> \o array_text(val.v, 1) \o <<"]">>
    [] val.t = "Object" -> <<"{">> \o object_text(val.m, json_keys(val.m), 1) \o <<"}">>

array_text(v, i) ==
  IF i > Len(v) THEN <<>>
  ELSE (IF i > 1 THEN <<",">> ELSE <<>>) \o Value_text(v[i]) \o array_text(v, i + 1)

object_text(m, keys, i) ==
  IF i > Len(keys) THEN <<>>
  ELSE (IF i > 1 THEN <<",">> ELSE <<>>)
         \o <<"\"">> \o KeyChars(keys[i]) \o <<"\"", ":">> \o Value_text(m[keys[i]])
         \o object_text(m, keys, i + 1)

\* Value::to_string
Value_to_string(val) == Value_text(val)

headers_to_json(headers) ==
  JObject([key \in DOMAIN headers |-> JString(join_comma(headers[key]))])

\* request is the JSON object that holds the "headers" attribute, or Null
headers_from_json(request) ==
  IF request.t = "Object" /\ "headers" \in DOMAIN request.m /\ request.m["headers"].t = "Object"
  THEN LET m == request.m["headers"].m
       IN [some |-> TRUE,
           map |-> [key \in DOMAIN m |->
                      CASE m[key].t = "String" -> parse_header(key, m[key].s)
                        [] m[key].t = "Array" ->
                             [i \in 1..Len(m[key].v) |->
                                IF m[key].v[i].t = "String" THEN m[key].v[i].s
                                ELSE Value_to_string(m[key].v[i])]
                        [] OTHER -> <<Value_to_string(m[key])>>]]
  ELSE [some |-> FALSE]

HeaderValues == {<<"a">>, <<"b">>, <<"a", ",", "b">>, <<" ", "a">>, <<>>}
HeaderValueLists == SeqsUpTo(HeaderValues, MaxHeaderValues)
HeaderMapNames == {"Set-Cookie", "X-Test"}
HeaderMaps ==
  UNION {[names -> HeaderValueLists] : names \in SUBSET HeaderMapNames}

\* header values as a pact file may hold them: strings, arrays and other values
HeaderJsonValues ==
  {JString(<<"a", ",", "b">>), JNumber(1), JBool(TRUE), JNull, JArray(<<>>), JObject(<<>>),
   JArray(<<JNumber(1), JString(<<"a">>)>>), JObject([k \in {"a"} |-> JNumber(1)])}
HeaderJsons ==
  UNION {{JObject([k \in {"headers"} |-> JObject(m)]) : m \in [names -> HeaderJsonValues]} :
           names \in SUBSET HeaderMapNames}

NoJson == JNull
InitHeaders ==
  \/ \E h \in HeaderMaps :
       eval = [f |-> "headers", in |-> h, calls |-> 0, json |-> NoJson, back |-> [some |-> FALSE]]
  \/ \E json \in HeaderJsons :
       eval = [f |-> "headers_json", in |-> json, calls |-> 0, json |-> json,
               back |-> [some |-> FALSE]]

\* headers_to_json(&h), stored as the "headers" attribute
HeadersToJson ==
  /\ eval.f = "headers" /\ eval.calls = 0
  /\ eval' = [eval EXCEPT !.calls = 1,
                          !.json = JObject([k \in {"headers"} |-> headers_to_json(eval.in)])]
  /\ UNCHANGED <<pathVars, pactVars, mimeVars>>

\* headers_from_json(&json)
HeadersFromJson ==
  /\ eval.f = "headers" /\ eval.calls = 1
  /\ eval' = [eval EXCEPT !.calls = 2, !.back = headers_from_json(eval.json)]
  /\ UNCHANGED <<pathVars, pactVars, mimeVars>>

\* headers_from_json(&json) of the "headers" attribute of a pact file
HeadersFromJsonValue ==
  /\ eval.f = "headers_json" /\ eval.calls = 0
  /\ eval' = [eval EXCEPT !.calls = 1, !.back = headers_from_json(eval.in)]
  /\ UNCHANGED <<pathVars, pactVars, mimeVars>>

HeadersNext == HeadersToJson \/ HeadersFromJson \/ HeadersFromJsonValue

(***************************************************************************)
(* V3 messages read from JSON and written back (message.rs).  A JSON       *)
(* object is a function from its keys; the content types, the provider     *)
(* states and the codecs of matching rules and generators are not part of  *)
(* the sources at hand and follow the specification (sections 2 and 7).    *)
(***************************************************************************)
\* the JSON object {"a":1} and its text
ObjA == JObject([k \in {"a"} |-> JNumber(1)])
ObjAText == <<"{", "\"", "a", "\"", ":", "1", "}">>

\* serde_json::from_slice of the texts drawn
serde_from_slice(body) ==
  IF body = ObjAText THEN [ok |-> TRUE, value |-> ObjA]
  ELSE IF body = <<"{", "}">> THEN [ok |-> TRUE, value |-> JObject(<<>>)]
  ELSE IF body # <<>> /\ \A i \in 1..Len(body) : body[i] \in Digits
       THEN [ok |-> TRUE, value |-> JNumber(parse_usize(body))]
  ELSE [ok |-> FALSE]

\* base64::encode of the bodies drawn
base64_encode(body) ==
  CASE body = <<"x">> -> <<"e", "A", "=", "=">>
    [] body = ObjAText -> <<"e", "y", "J", "h", "I", "j", "o", "x", "f", "Q", "=", "=">>
    [] OTHER -> <<>>

json_to_string(value) ==
  CASE value.t = "String" -> value.s
    [] value.t = "Null" -> <<>>
    [] OTHER -> Value_text(value)

\* content types
NoContentType == "none"
TextPlain == <<"t", "e", "x", "t", "/", "p", "l", "a", "i", "n">>
ApplicationJson ==
  <<"a", "p", "p", "l", "i", "c", "a", "t", "i", "o", "n", "/", "j", "s", "o", "n">>

\* ContentType::parse(..).ok()
ContentType_parse(s) ==
  IF s = TextPlain THEN "text/plain"
  ELSE IF s = ApplicationJson THEN "application/json"
  ELSE NoContentType

is_json(content_type) == content_type = "application/json"
is_text(content_type) == content_type = "text/plain"
is_binary(content_type) == FALSE

\* detect_content_type_from_string: text that opens a JSON object is JSON,
\* other text is plain text
detect_content_type_from_string(s) ==
  IF s # <<>> /\ s[1] = "{" THEN "application/json" ELSE "text/plain"

Absent == [t |-> "Absent"]
get(json, key) == IF key \in DOMAIN json.m THEN json.m[key] ELSE Absent

Missing == [t |-> "Missing"]
EmptyBody == [t |-> "Empty"]
NullBody == [t |-> "Null"]
Present(body, content_type) == [t |-> "Present", body |-> body, content_type |-> content_type]

\* body_from_json(request, fieldname, &None)
body_from_json(request, fieldname) ==
  LET v == get(request, fieldname)
  IN CASE v.t = "Absent" -> Missing
       [] v.t = "String" ->
            IF v.s = <<>> THEN EmptyBody
            ELSE LET content_type == detect_content_type_from_string(v.s)
                 IN IF is_json(content_type)
                    THEN IF serde_from_slice(v.s).ok THEN Present(v.s, content_type)
                         ELSE Present(<<"\"">> \o v.s \o <<"\"">>, content_type)
                    ELSE Present(v.s, content_type)
       [] v.t = "Null" -> NullBody
       [] OTHER -> Present(Value_text(v), NoContentType)

\* OptionalBody::set_content_type
set_content_type(body, content_type) ==
  IF body.t = "Present" THEN Present(body.body, content_type) ELSE body

\* str::to_ascii_lowercase of the metadata keys drawn
to_ascii_lowercase(key) ==
  CASE key = "contentType" -> "contenttype"
    [] key = "CONTENTTYPE" -> "contenttype"
    [] key = "Content-Type" -> "content-type"
    [] key = "Content-type" -> "content-type"
    [] OTHER -> key

\* the metadata entries whose key is contentType or content-type, whatever
\* the case of its letters
ContentTypeKeys(metadata) ==
  {key \in DOMAIN metadata : to_ascii_lowercase(key) \in {"contenttype", "content-type"}}

\* what metadata.iter().find(..) can yield: the map is a HashMap, whose
\* iteration may meet any of the matching entries first
NoKey == [t |-> "None"]
find_content_type(metadata) ==
  IF ContentTypeKeys(metadata) = {} THEN {NoKey}
  ELSE {[t |-> "Some", key |-> key] : key \in ContentTypeKeys(metadata)}

\* found is the entry the iteration yielded
metadata_content_type(metadata, found) ==
  IF found = NoKey THEN NoContentType
  ELSE ContentType_parse(json_to_string(metadata[found.key]))

\* ProviderState::from_json: the entries of "providerStates"
ProviderState_from_json(json) ==
  LET v == get(json, "providerStates")
  IN IF v.t = "Array" THEN [i \in 1..Len(v.v) |-> [name |-> v.v[i].m["name"].s]]
     ELSE <<>>

ProviderState_to_json(state) == JObject([k \in {"name"} |-> JString(state.name)])

\* matchers_from_json: the "matchingRules" attribute, no rules without it
matchers_from_json(json) ==
  LET v == get(json, "matchingRules")
  IN IF v.t = "Object" THEN [rules |-> v.m] ELSE [rules |-> <<>>]

matchers_to_json(matching_rules) == JObject(matching_rules.rules)

\* Generators::default()
Generators_default == [categories |-> <<>>]
generators_to_json(generators) == JObject(generators.categories)

\* format!("Message {}", index)
MessageN(index) ==
  <<"M", "e", "s", "s", "a", "g", "e", " ">> \o usize_to_string(index)

\* the "metaData" attribute, or else "metadata", when it is an object
metadata_from_json(json) ==
  LET md == IF get(json, "metaData").t # "Absent" THEN get(json, "metaData")
            ELSE get(json, "metadata")
  IN IF md.t = "Object" THEN md.m ELSE <<>>

\* found is what the search of the metadata for a content type yielded
Message_from_json(index, json, spec_version, found) ==
  IF spec_version # "V3" THEN [ok |-> FALSE]
  ELSE
    LET id == IF get(json, "_id").t = "Absent" THEN <<>>
              ELSE <<json_to_string(get(json, "_id"))>>
        d == get(json, "description")
        description == IF d.t = "Absent" THEN MessageN(index)
                       ELSE IF d.t = "String" THEN d.s
                       ELSE Value_text(d)
        metadata == metadata_from_json(json)
        body == body_from_json(json, "contents")
        content_type == metadata_content_type(metadata, found)
    IN [ok |-> TRUE,
        message |->
          [id |-> id,
           description |-> description,
           provider_states |-> ProviderState_from_json(json),
           contents |-> IF content_type # NoContentType
                        THEN set_content_type(body, content_type) ELSE body,
           matching_rules |-> matchers_from_json(json),
           metadata |-> metadata,
           generators |-> Generators_default]]

\* Message::message_content_type; without a content type on the body or in
\* the metadata the type is detected from the body
\* found is what the search of the metadata yielded
message_content_type(self, found) ==
  IF self.contents.t = "Present" /\ self.contents.content_type # NoContentType
  THEN self.contents.content_type
  ELSE IF found # NoKey THEN metadata_content_type(self.metadata, found)
  ELSE IF self.contents.t = "Present"
       THEN detect_content_type_from_string(self.contents.body)
  ELSE NoContentType

contents_to_json(self, found) ==
  LET body == self.contents.body
      content_type == message_content_type(self, found)
  IN IF is_json(content_type)
     THEN IF serde_from_slice(body).ok THEN serde_from_slice(body).value
          ELSE JString(base64_encode(body))
     ELSE IF is_binary(content_type) THEN JString(base64_encode(body))
     ELSE JString(body)

Message_to_json(self, spec_version, found) ==
  LET keys == {"description", "metadata"}
                \cup (IF DOMAIN self.matching_rules.rules # {} THEN {"matchingRules"} ELSE {})
                \cup (IF DOMAIN self.generators.categories # {} THEN {"generators"} ELSE {})
                \cup (IF self.contents.t # "Missing" THEN {"contents"} ELSE {})
                \cup (IF self.provider_states # <<>> THEN {"providerStates"} ELSE {})
  IN JObject([k \in keys |->
       CASE k = "description" -> JString(self.description)
         [] k = "metadata" -> JObject(self.metadata)
         [] k = "matchingRules" -> matchers_to_json(self.matching_rules)
         [] k = "generators" -> generators_to_json(self.generators)
         [] k = "contents" ->
              (CASE self.contents.t = "Present" -> contents_to_json(self, found)
                 [] self.contents.t = "Empty" -> JString(<<>>)
                 [] self.contents.t = "Null" -> JNull)
         [] k = "providerStates" ->
              JArray([i \in 1..Len(self.provider_states) |->
                        ProviderState_to_json(self.provider_states[i])])])

\* the attributes a message JSON is drawn from: each key with its values
MessageAttributes ==
  [k \in {"_id", "description", "providerStates", "metaData", "metadata", "contents",
          "matchingRules", "generators"} |->
     CASE k = "_id" -> {JString(<<"i">>)}
       [] k = "description" -> {JString(<<"d">>), JNumber(5)}
       [] k = "providerStates" -> {JArray(<<JObject([n \in {"name"} |-> JString(<<"s">>)])>>)}
       [] k = "metaData" -> {JObject([n \in {"contentType"} |-> JString(TextPlain)])}
       [] k = "metadata" ->
            {JObject(<<>>), JObject([n \in {"contentType"} |-> JString(ApplicationJson)]),
             JObject([n \in {"k"} |-> JString(<<"v">>)]),
             JObject([n \in {"Content-Type"} |-> JString(ApplicationJson)]),
             JObject([n \in {"CONTENTTYPE"} |-> JString(TextPlain)]),
             JObject([n \in {"contentType", "content-type"} |->
                        IF n = "contentType" THEN JString(TextPlain)
                        ELSE JString(ApplicationJson)])}
       [] k = "contents" -> {JNull, JString(<<>>), JString(<<"x">>), JString(ObjAText), ObjA}
       [] k = "matchingRules" ->
            {JObject([n \in {"body"} |-> JObject(<<>>)])}
       [] k = "generators" ->
            {JObject([n \in {"body"} |-> JObject(<<>>)])}]

MessageKeys ==
  <<"_id", "description", "providerStates", "metaData", "metadata", "contents",
    "matchingRules", "generators">>

\* every object that has some of the first n keys, each with one of its values
RECURSIVE ObjectsOver(_)
ObjectsOver(n) ==
  IF n = 0 THEN {<<>>}
  ELSE LET k == MessageKeys[n]
       IN ObjectsOver(n - 1)
            \cup {m @@ (k :> v) : m \in ObjectsOver(n - 1), v \in MessageAttributes[k]}

V3MessageJsons == {JObject(m) : m \in ObjectsOver(Len(MessageKeys))}

InitMessageJson ==
  \E json \in V3MessageJsons, index \in {0, 1} :
    eval = [f |-> "message_json", in |-> [index |-> index, json |-> json], calls |-> 0,
            found |-> NoKey, message |-> [ok |-> FALSE], json |-> NoJson]

\* Message::from_json(index, &json, &PactSpecification::V3); found is the
\* entry that the iteration of the metadata map meets first
MessageFromJson ==
  /\ eval.f = "message_json" /\ eval.calls = 0
  /\ \E found \in find_content_type(metadata_from_json(eval.in.json)) :
       eval' = [eval EXCEPT !.calls = 1, !.found = found,
                            !.message = Message_from_json(eval.in.index, eval.in.json, "V3",
                                                          found)]
  /\ UNCHANGED <<pathVars, pactVars, mimeVars>>

\* message.to_json(&PactSpecification::V3): the message holds the map that
\* from_json searched, and an unchanged HashMap iterates in the same order
MessageToJson ==
  /\ eval.f = "message_json" /\ eval.calls = 1
  /\ eval.message.ok
  /\ eval' = [eval EXCEPT !.calls = 2,
                          !.json = Message_to_json(eval.message.message, "V3", eval.found)]
  /\ UNCHANGED <<pathVars, pactVars, mimeVars>>

MessageJsonNext == MessageFromJson \/ MessageToJson

(***************************************************************************)
(* Query strings (query_strings.rs).  A string is a sequence of code       *)
(* points, a byte buffer a sequence of numbers below 256.                  *)
(***************************************************************************)
MaxParams == 3      \* parameters of a query string
MaxChars == 2       \* characters of an encoded string

ChPercent == 37     \* '%'
ChAmp == 38         \* '&'
ChPlus == 43        \* '+'
ChDash == 45        \* '-'
ChEquals == 61      \* '='
ChSpace == 32       \* ' '

\* char::to_digit(16): 0-9, a-f, A-F, or -1
hex_value(c) ==
  IF c >= 48 /\ c <= 57 THEN c - 48
  ELSE IF c >= 97 /\ c <= 102 THEN c - 87
  ELSE IF c >= 65 /\ c <= 70 THEN c - 55
  ELSE -1

\* std::str::from_utf8: the code points of a byte buffer, or an error
IsCont(b) == b >= 128 /\ b <= 191

RECURSIVE from_utf8(_, _, _)
from_utf8(buffer, i, out) ==
  IF i > Len(buffer) THEN [ok |-> TRUE, s |-> out]
  ELSE
    LET b == buffer[i]
        has(n) == i + n <= Len(buffer)
        cont(n) == IsCont(buffer[i + n])
    IN IF b < 128 THEN from_utf8(buffer, i + 1, Append(out, b))
       ELSE IF b >= 194 /\ b <= 223
            THEN IF has(1) /\ cont(1)
                 THEN from_utf8(buffer, i + 2,
                                Append(out, (b - 192) * 64 + (buffer[i + 1] - 128)))
                 ELSE [ok |-> FALSE]
       ELSE IF b >= 224 /\ b <= 239
            THEN IF /\ has(2) /\ cont(1) /\ cont(2)
                    /\ (b = 224 => buffer[i + 1] >= 160)
                    /\ (b = 237 => buffer[i + 1] <= 159)
                 THEN from_utf8(buffer, i + 3,
                                Append(out, (b - 224) * 4096 + (buffer[i + 1] - 128) * 64
                                              + (buffer[i + 2] - 128)))
                 ELSE [ok |-> FALSE]
       ELSE IF b >= 240 /\ b <= 244
            THEN IF /\ has(3) /\ cont(1) /\ cont(2) /\ cont(3)
                    /\ (b = 240 => buffer[i + 1] >= 144)
                    /\ (b = 244 => buffer[i + 1] <= 143)
                 THEN from_utf8(buffer, i + 4,
                                Append(out, (b - 240) * 262144 + (buffer[i + 1] - 128) * 4096
                                              + (buffer[i + 2] - 128) * 64
                                              + (buffer[i + 3] - 128)))
                 ELSE [ok |-> FALSE]
       ELSE [ok |-> FALSE]

\* the loop of decode_query: the bytes pushed for the characters from i on
RECURSIVE decode_bytes(_, _, _)
decode_bytes(query, i, buffer) ==
  IF i > Len(query) THEN buffer
  ELSE IF query[i] = ChPercent
       THEN IF i + 2 <= Len(query)
            THEN LET v1 == query[i + 1]
                     v2 == query[i + 2]
                 IN IF v1 < 128 /\ v2 < 128 /\ hex_value(v1) >= 0 /\ hex_value(v2) >= 0
                    THEN decode_bytes(query, i + 3,
                                      Append(buffer, hex_value(v1) * 16 + hex_value(v2)))
                    ELSE decode_bytes(query, i + 3,
                                      buffer \o <<ChPercent, v1 % 256, v2 % 256>>)
            ELSE IF i + 1 <= Len(query)
                 THEN decode_bytes(query, i + 2, buffer \o <<ChPercent, query[i + 1] % 256>>)
            ELSE decode_bytes(query, i + 1, Append(buffer, ChPercent))
  ELSE IF query[i] = ChPlus THEN decode_bytes(query, i + 1, Append(buffer, ChSpace))
  ELSE decode_bytes(query, i + 1, Append(buffer, query[i] % 256))

decode_query(query) == from_utf8(decode_bytes(query, 1, <<>>), 1, <<>>)

\* decode_query(s).unwrap_or_else(|_| s.to_owned())
decode_or_raw(s) == IF decode_query(s).ok THEN decode_query(s).s ELSE s

\* str::split(sep): the pieces between the separators, at least one
RECURSIVE split_at(_, _, _, _)
split_at(s, sep, i, piece) ==
  IF i > Len(s) THEN <<piece>>
  ELSE IF s[i] = sep THEN <<piece>> \o split_at(s, sep, i + 1, <<>>)
  ELSE split_at(s, sep, i + 1, Append(piece, s[i]))

\* str::splitn(2, '='): cut at the first '=' only
splitn_2(kv) ==
  IF \E i \in 1..Len(kv) : kv[i] = ChEquals
  THEN LET i == CHOOSE j \in 1..Len(kv) :
                  kv[j] = ChEquals /\ \A k \in 1..(j - 1) : kv[k] # ChEquals
       IN <<SubSeq(kv, 1, i - 1), SubSeq(kv, i + 1, Len(kv))>>
  ELSE <<kv>>

entry_push_front(map, name, value) ==
  IF name \in DOMAIN map THEN [map EXCEPT ![name] = <<value>> \o map[name]]
  ELSE map @@ (name :> <<value>>)

\* map.entry(name).or_insert_with(|| vec![]).push(value)
entry_push(map, name, value) ==
  IF name \in DOMAIN map THEN [map EXCEPT ![name] = Append(map[name], value)]
  ELSE map @@ (name :> <<value>>)

\* the fold of parse_query_string over the pieces from i on; a value is
\* <<v>> for Some(v) and <<>> for None
RECURSIVE query_fold(_, _, _)
query_fold(pieces, i, map) ==
  IF i > Len(pieces) THEN map
  ELSE IF pieces[i] = <<>> THEN query_fold(pieces, i + 1, map)
  ELSE LET name_value == splitn_2(pieces[i])
           name == decode_or_raw(name_value[1])
           value == IF Len(name_value) > 1 THEN <<decode_or_raw(name_value[2])>> ELSE <<>>
       IN query_fold(pieces, i + 1, entry_push(map, name, value))

parse_query_string(query) ==
  IF query # <<>>
  THEN [some |-> TRUE, map |-> query_fold(split_at(query, ChAmp, 1, <<>>), 1, <<>>)]
  ELSE [some |-> FALSE]

\* the parameters a query string is put together from:
\* a=1, a=2, b=1, a, %61=1, b=1=2, b=%31, the empty parameter and a=%e9
QueryParams ==
  {<<97, 61, 49>>, <<97, 61, 50>>, <<98, 61, 49>>, <<97>>, <<37, 54, 49, 61, 49>>,
   <<98, 61, 49, 61, 50>>, <<98, 61, 37, 51, 49>>, <<>>, <<97, 61, 37, 101, 57>>}

RECURSIVE join_amp(_)
join_amp(params) ==
  IF params = <<>> THEN <<>>
  ELSE IF Len(params) = 1 THEN params[1]
  ELSE params[1] \o <<ChAmp>> \o join_amp(Tail(params))

\* the parameters with those at i and i + 1 in each other's place
swapped(params, i) ==
  [k \in 1..Len(params) |->
     IF k = i THEN params[i + 1] ELSE IF k = i + 1 THEN params[i] ELSE params[k]]

QueryInputs ==
  {[params |-> ps, at |-> i] :
     ps \in SeqsUpTo(QueryParams, MaxParams) \ {<<>>}, i \in 1..(MaxParams - 1)}

InitQuery ==
  \E in \in {q \in QueryInputs : q.at < Len(q.params)} \cup
            {[params |-> <<p>>, at |-> 0] : p \in QueryParams} :
    eval = [f |-> "parse_query_string", in |-> in, calls |-> 0,
            out |-> [some |-> FALSE], other |-> [some |-> FALSE]]

\* parse_query_string(query)
ParseQueryString ==
  /\ eval.f = "parse_query_string" /\ eval.calls = 0
  /\ eval' = [eval EXCEPT !.calls = 1,
                          !.out = parse_query_string(join_amp(eval.in.params))]
  /\ UNCHANGED <<pathVars, pactVars, mimeVars>>

\* parse_query_string of the query string with two neighbours exchanged
ParseQuerySwapped ==
  /\ eval.f = "parse_query_string" /\ eval.calls = 1
  /\ eval.in.at > 0
  /\ eval' = [eval EXCEPT !.calls = 2,
                !.other = parse_query_string(join_amp(swapped(eval.in.params, eval.in.at)))]
  /\ UNCHANGED <<pathVars, pactVars, mimeVars>>

QueryNext == ParseQueryString \/ ParseQuerySwapped

(***************************************************************************)
(* parse_header applied to one header line                                 *)
(***************************************************************************)
MaxValueLen == 4    \* characters of a header value

ParsedHeaderNames ==
  {"Set-Cookie", "SET-COOKIE", "set-cookie", "User-Agent", "Last-Modified", "date",
   "Accept", "X-Test"}
HeaderChars == {"a", "b", ",", " ", "\t"}

InitParseHeader ==
  \E name \in ParsedHeaderNames, value \in SeqsUpTo(HeaderChars, MaxValueLen) :
    eval = [f |-> "parse_header", in |-> [name |-> name, value |-> value], calls |-> 0,
            out |-> <<>>]

\* parse_header(name, value)
ParseHeader ==
  /\ eval.f = "parse_header" /\ eval.calls = 0
  /\ eval' = [eval EXCEPT !.calls = 1, !.out = parse_header(eval.in.name, eval.in.value)]
  /\ UNCHANGED <<pathVars, pactVars, mimeVars>>

(***************************************************************************)
(* encode_query, and decode_query applied to what it wrote                 *)
(***************************************************************************)
\* the hexadecimal digits of n, lower case, without leading zeros, as
\* char::escape_unicode writes them
RECURSIVE to_hex(_)
to_hex(n) ==
  LET d == n % 16
      c == IF d < 10 THEN 48 + d ELSE 87 + d
  IN IF n < 16 THEN <<c>> ELSE Append(to_hex(n \div 16), c)

\* batching: the digits two by two, each pair after a '%'; the second digit
\* of a pair is unwrapped
RECURSIVE batching(_, _, _)
batching(digits, i, out) ==
  IF i > Len(digits) THEN [panic |-> FALSE, s |-> out]
  ELSE IF i + 1 > Len(digits) THEN [panic |-> TRUE]
  ELSE batching(digits, i + 2, out \o <<ChPercent, digits[i], digits[i + 1]>>)

encode_char(ch) ==
  IF ch = ChSpace THEN [panic |-> FALSE, s |-> <<ChPlus>>]
  ELSE IF \/ ch = ChDash
          \/ ch \in 97..122
          \/ ch \in 65..90
          \/ ch \in 48..57
       THEN [panic |-> FALSE, s |-> <<ch>>]
  ELSE batching(to_hex(ch), 1, <<>>)

RECURSIVE encode_from(_, _, _)
encode_from(query, i, out) ==
  IF i > Len(query) THEN [panic |-> FALSE, s |-> out]
  ELSE LET e == encode_char(query[i])
       IN IF e.panic THEN e ELSE encode_from(query, i + 1, out \o e.s)

encode_query(query) == encode_from(query, 1, <<>>)

\* space, '-', 'a', 'Z', '0', '%', '+', '&', line feed (U+A), U+7F, e acute
\* (U+E9), A tilde (U+C3), copyright (U+A9), U+101, U+2041, euro (U+20AC),
\* U+1F600
QueryChars == {32, 45, 97, 90, 48, 37, 43, 38, 10, 127, 233, 195, 169, 257, 8257, 8364, 128512}

NoDecoded == [ok |-> FALSE, s |-> <<>>]

InitEncode ==
  \E s \in SeqsUpTo(QueryChars, MaxChars) :
    eval = [f |-> "encode_query", in |-> s, calls |-> 0,
            encoded |-> [panic |-> FALSE, s |-> <<>>], decoded |-> NoDecoded]

\* encode_query(s)
EncodeQuery ==
  /\ eval.f = "encode_query" /\ eval.calls = 0
  /\ eval' = [eval EXCEPT !.calls = 1, !.encoded = encode_query(eval.in)]
  /\ UNCHANGED <<pathVars, pactVars, mimeVars>>

\* decode_query of the string encode_query returned
DecodeEncoded ==
  /\ eval.f = "encode_query" /\ eval.calls = 1
  /\ ~eval.encoded.panic
  /\ eval' = [eval EXCEPT !.calls = 2, !.decoded = decode_query(eval.encoded.s)]
  /\ UNCHANGED <<pathVars, pactVars, mimeVars>>

EncodeNext == EncodeQuery \/ DecodeEncoded

(***************************************************************************)
(* parse_path_exp applied to expressions with a bracket index              *)
(***************************************************************************)
Zeros21 == [i \in 1..21 |-> "0"]
Nines20 == [i \in 1..20 |-> "9"]

\* what stands between the brackets: small indexes, indexes with leading
\* zeros, usize::MAX + 1 and more, numeric characters outside ASCII, and a
\* quoted key of such a character
IndexRuns ==
  {<<"0">>, <<"1">>, <<"1", "1">>, <<"0", "0", "7">>, Append(Zeros21, "1"),
   TooLarge, Nines20, <<"1">> \o Zeros21,
   <<"U+00B2">>, <<"1", "U+00B2">>, <<"U+0663">>, <<"1", "U+0663", "1">>,
   <<"'", "U+00B2", "'">>}
IndexPrefixes == {<<"$">>, <<"$", ".", "a">>, <<"a">>}
IndexTails == {<<>>, <<"]">>, <<"]", ".", "a">>, <<"a">>}

InitParseIndex ==
  \E before \in IndexPrefixes, run \in IndexRuns, after \in IndexTails :
    eval = [f |-> "index_path", in |-> before \o <<"[">> \o run \o after, run |-> run,
            calls |-> 0, out |-> NoParseResult]

\* parse_path_exp(expr), expr holding a bracket index
ParseIndex ==
  /\ eval.f = "index_path" /\ eval.calls = 0
  /\ eval' = [eval EXCEPT !.calls = 1, !.out = parse_path_exp(eval.in)]
  /\ UNCHANGED <<pathVars, pactVars, mimeVars>>

(***************************************************************************)
(* resolve_path against a JSON value (json_utils.rs).  A node of the arena *)
(* is written as the list of the node values from the root down to it; the *)
(* tree is the list of its nodes in the order they were appended, which is *)
(* the order of descendants().                                             *)
(***************************************************************************)
MaxPathTokens == 2     \* tokens after Root in a resolved expression

\* the keys drawn, in the order a serde_json Map iterates them
KeyOrder == << <<>>, <<"a">>, <<"b">> >>
keys_of(map) == SelectSeq(KeyOrder, LAMBDA k : k \in DOMAIN map)

RECURSIVE query_object_graph(_, _, _)
RECURSIVE star_loop(_, _, _, _, _)
RECURSIVE star_index_loop(_, _, _, _, _)

\* for (key, val) in map
star_loop(remaining, node, map, keys, i) ==
  IF i > Len(keys) THEN <<>>
  ELSE LET child == Append(node, keys[i])
       IN <<child>> \o query_object_graph(remaining, child, map[keys[i]])
            \o star_loop(remaining, node, map, keys, i + 1)

\* for (index, val) in list.iter().enumerate()
star_index_loop(remaining, node, list, index, unused) ==
  IF index >= Len(list) THEN <<>>
  ELSE LET child == Append(node, usize_to_string(index))
       IN <<child>> \o query_object_graph(remaining, child, list[index + 1])
            \o star_index_loop(remaining, node, list, index + 1, unused)

\* the nodes appended below node_cursor, in the order they are appended
query_object_graph(tokens_left, node_cursor, body_cursor) ==
  IF tokens_left = <<>> THEN <<>>
  ELSE LET token == Head(tokens_left)
           rest == Tail(tokens_left)
       IN CASE token.t = "Field" ->
                 IF body_cursor.t = "Object" /\ token.name \in DOMAIN body_cursor.m
                 THEN LET child == Append(node_cursor, token.name)
                      IN <<child>> \o query_object_graph(rest, child, body_cursor.m[token.name])
                 ELSE <<>>
            [] token.t = "Index" ->
                 IF body_cursor.t = "Array"
                 THEN IF Len(body_cursor.v) > token.index
                      THEN LET child == Append(node_cursor, usize_to_string(token.index))
                           IN <<child>>
                                \o query_object_graph(rest, child, body_cursor.v[token.index + 1])
                      ELSE query_object_graph(rest, node_cursor, body_cursor)
                 ELSE <<>>
            [] token.t = "Star" ->
                 IF body_cursor.t = "Object"
                 THEN star_loop(rest, node_cursor, body_cursor.m, keys_of(body_cursor.m), 1)
                 ELSE <<>>
            [] token.t = "StarIndex" ->
                 IF body_cursor.t = "Array"
                 THEN star_index_loop(rest, node_cursor, body_cursor.v, 0, 0)
                 ELSE <<>>
            [] OTHER -> query_object_graph(rest, node_cursor, body_cursor)

\* path.iter().rev().join("/")
RECURSIVE join_slash(_)
join_slash(path) ==
  IF Len(path) = 1 THEN path[1]
  ELSE join_slash(SubSeq(path, 1, Len(path) - 1)) \o <<"/">> \o path[Len(path)]

\* node.first_child().is_none()
first_child_is_none(tree, node) ==
  \A i \in 1..Len(tree) :
    ~(Len(tree[i]) = Len(node) + 1 /\ SubSeq(tree[i], 1, Len(node)) = node)

resolve_path(value, expression) ==
  LET root == << <<>> >>
      tree == <<root>> \o query_object_graph(expression.path_tokens, root, value)
      leaves == SelectSeq(tree, LAMBDA node :
                  /\ node[Len(node)] # <<>>
                  /\ first_child_is_none(tree, node)
                  /\ Len(node) = Len(expression.path_tokens))
  IN [i \in 1..Len(leaves) |-> join_slash(leaves[i])]

Obj1(k, v) == JObject((k :> v))
Obj2(k1, v1, k2, v2) == JObject((k1 :> v1) @@ (k2 :> v2))

\* null, a number, {}, [], {"a":1,"b":2}, [{"a":1,"b":2},{"a":2,"b":3}],
\* {"":1,"a":2}, {"a":[1,{"a":1}],"":{"a":1}}, [[1],[]], {"a":{"a":1}}
ResolveValues ==
  {JNull, JNumber(1), JObject(<<>>), JArray(<<>>),
   Obj2(<<"a">>, JNumber(1), <<"b">>, JNumber(2)),
   JArray(<<Obj2(<<"a">>, JNumber(1), <<"b">>, JNumber(2)),
            Obj2(<<"a">>, JNumber(2), <<"b">>, JNumber(3))>>),
   Obj2(<<>>, JNumber(1), <<"a">>, JNumber(2)),
   Obj2(<<"a">>, JArray(<<JNumber(1), Obj1(<<"a">>, JNumber(1))>>),
        <<>>, Obj1(<<"a">>, JNumber(1))),
   JArray(<<JArray(<<JNumber(1)>>), JArray(<<>>)>>),
   Obj1(<<"a">>, Obj1(<<"a">>, JNumber(1)))}

ResolveTokens == {Field(<<"a">>), Field(<<"b">>), Index(0), Index(1), Index(2), Star, StarIndex}

InitResolve ==
  \E value \in ResolveValues, tokens \in SeqsUpTo(ResolveTokens, MaxPathTokens) :
    eval = [f |-> "resolve_path", in |-> [value |-> value, tokens |-> <<Root>> \o tokens],
            calls |-> 0, out |-> <<>>]

\* resolve_path(value, DocPath of the tokens)
ResolvePath ==
  /\ eval.f = "resolve_path" /\ eval.calls = 0
  /\ eval' = [eval EXCEPT !.calls = 1,
                !.out = resolve_path(eval.in.value, DocPath_from_tokens(eval.in.tokens))]
  /\ UNCHANGED <<pathVars, pactVars, mimeVars>>

(***************************************************************************)
(* Date and time adjustments (generators/datetime_expressions.rs).  A      *)
(* date-time is a chrono DateTime<Utc> as its calendar fields; an          *)
(* adjustment value is a u64 written as four 16-bit limbs, lowest first.   *)
(***************************************************************************)
MaxMonths == 2       \* months of a month adjustment

DateTime(y, mo, d, h, mi, s, n) ==
  [year |-> y, month |-> mo, day |-> d, hour |-> h, minute |-> mi, second |-> s, nano |-> n]

is_leap_year(year) == (year % 4 = 0 /\ year % 100 # 0) \/ year % 400 = 0

days_in_month(year, month) ==
  IF month = 2 THEN (IF is_leap_year(year) THEN 29 ELSE 28)
  ELSE IF month \in {4, 6, 9, 11} THEN 30 ELSE 31

\* date.add(Duration::try_days(1).unwrap())
add_day(date) ==
  IF date.day < days_in_month(date.year, date.month) THEN [date EXCEPT !.day = @ + 1]
  ELSE IF date.month < 12 THEN [date EXCEPT !.day = 1, !.month = @ + 1]
  ELSE [date EXCEPT !.day = 1, !.month = 1, !.year = @ + 1]

\* date.sub(Duration::try_days(1).unwrap())
sub_day(date) ==
  IF date.day > 1 THEN [date EXCEPT !.day = @ - 1]
  ELSE IF date.month > 1
       THEN [date EXCEPT !.month = @ - 1, !.day = days_in_month(date.year, date.month - 1)]
  ELSE [date EXCEPT !.year = @ - 1, !.month = 12, !.day = 31]

\* Datelike::with_day, with_year and Timelike::with_hour: None when the
\* field gives no valid date or time
with_day(date, day) ==
  IF day \in 1..days_in_month(date.year, date.month)
  THEN [some |-> TRUE, value |-> [date EXCEPT !.day = day]]
  ELSE [some |-> FALSE]

with_year(date, year) ==
  IF year \in -262143..262142 /\ date.day <= days_in_month(year, date.month)
  THEN [some |-> TRUE, value |-> [date EXCEPT !.year = year]]
  ELSE [some |-> FALSE]

with_hour(time, hour) ==
  IF hour \in 0..23 THEN [some |-> TRUE, value |-> [time EXCEPT !.hour = hour]]
  ELSE [some |-> FALSE]

\* a u64 below 2^31 as limbs; value as i64 of such a u64; value as i32
u64(n) == <<n % 65536, n \div 65536, 0, 0>>
as_i64(value) == value[1] + value[2] * 65536
as_i32(value) ==
  IF value[2] >= 32768 THEN value[1] + (value[2] - 65536) * 65536
  ELSE value[1] + value[2] * 65536

RECURSIVE roll_forward(_, _, _, _)
roll_forward(date, month, month_count, months) ==
  IF month_count < months
  THEN LET next == add_day(date)
       IN IF next.month # month THEN roll_forward(next, next.month, month_count + 1, months)
          ELSE roll_forward(next, month, month_count, months)
  ELSE date

RECURSIVE roll_backward(_, _, _, _)
roll_backward(date, month, month_count, months) ==
  IF month_count > months
  THEN LET next == sub_day(date)
       IN IF next.month # month THEN roll_backward(next, next.month, month_count - 1, months)
          ELSE roll_backward(next, month, month_count, months)
  ELSE date

roll_month(date, months) ==
  IF months > 0
  THEN LET rolled == roll_forward(date, date.month, 0, months)
       IN unwrap_or(with_day(rolled, date.day), rolled)
  ELSE IF months < 0
  THEN LET rolled == roll_backward(date, date.month, 0, months)
       IN unwrap_or(with_day(rolled, date.day), rolled)
  ELSE date

Adjustment(type, value, operation) ==
  [adjustment_type |-> type, value |-> value, operation |-> operation]

\* forward_date_by for the MONTH and YEAR adjustments
forward_date_by(adjustment, date) ==
  CASE adjustment.adjustment_type = "MONTH" ->
         [ok |-> TRUE, date |-> roll_month(date, as_i64(adjustment.value))]
    [] adjustment.adjustment_type = "YEAR" ->
         [ok |-> TRUE,
          date |-> unwrap_or(with_year(date, date.year + as_i32(adjustment.value)), date)]

\* reverse_date_by for the MONTH and YEAR adjustments
reverse_date_by(adjustment, date) ==
  CASE adjustment.adjustment_type = "MONTH" ->
         [ok |-> TRUE, date |-> roll_month(date, -as_i64(adjustment.value))]
    [] adjustment.adjustment_type = "YEAR" ->
         [ok |-> TRUE,
          date |-> unwrap_or(with_year(date, date.year - as_i32(adjustment.value)), date)]

\* one adjustment of execute_date_expression
adjust_date(adjustment, date) ==
  IF adjustment.operation = "PLUS" THEN forward_date_by(adjustment, date)
  ELSE reverse_date_by(adjustment, date)

\* TimeBase::of
TimeBase_of(hour, ch) ==
  IF hour \in 1..12
  THEN [ok |-> TRUE,
        base |-> [t |-> CASE ch = "AM" -> "Am" [] ch = "PM" -> "Pm" [] ch = "NEXT" -> "Next",
                  hour |-> hour]]
  ELSE [ok |-> FALSE, err |-> "hour 1 to 12"]

\* execute_time_expression for an expression with a clock-hour base and no
\* adjustments
execute_time_expression(dt, base) ==
  LET time == [dt EXCEPT !.minute = 0, !.second = 0, !.nano = 0]
  IN CASE base.t = "Am" -> unwrap_or(with_hour(time, base.hour), dt)
       [] base.t = "Pm" -> unwrap_or(with_hour(time, 12 + base.hour), dt)
       [] base.t = "Next" ->
            IF dt.hour < 12 THEN unwrap_or(with_hour(time, 12 + base.hour), dt)
            ELSE unwrap_or(with_hour(time, base.hour), dt)

\* the parser's reading of "h o'clock", "h o'clock am", "h o'clock pm"
ClockHour_of(suffix) ==
  CASE suffix = "am" -> "AM" [] suffix = "pm" -> "PM" [] suffix = "" -> "NEXT"

\* the dates of 1999 to 2001 at 10:00
BaseDates ==
  {DateTime(y, mo, d, 10, 0, 0, 0) :
     y \in 1999..2001, mo \in 1..12, d \in 1..31} \cap
  {dt \in [year : 1999..2001, month : 1..12, day : 1..31, hour : {10}, minute : {0},
           second : {0}, nano : {0}] : dt.day <= days_in_month(dt.year, dt.month)}

\* 1, 2, 4, 2^32 - 1, 2^32 + 1 and 2^32 + 4
YearValues == {u64(1), u64(2), u64(4), <<65535, 65535, 0, 0>>, <<1, 0, 1, 0>>, <<4, 0, 1, 0>>}
YearDates ==
  {DateTime(y, mo, d, 10, 0, 0, 0) :
     y \in {2000, 2001}, mo \in {1, 2, 12}, d \in {1, 28, 29}} \cap BaseDates

BaseInstants ==
  {DateTime(2000, mo, 1, h, mi, s, n) :
     mo \in {1, 12}, h \in {0, 10, 11, 12, 23}, mi \in {0, 30}, s \in {0, 15}, n \in {0, 4000000}}

NoDate == [ok |-> FALSE]

InitDateTime ==
  \/ \E date \in BaseDates, n \in 1..MaxMonths, operation \in {"PLUS", "MINUS"} :
       eval = [f |-> "roll_month", in |-> [date |-> date, n |-> n, operation |-> operation],
               calls |-> 0, out |-> NoDate]
  \/ \E date \in YearDates, value \in YearValues, operation \in {"PLUS", "MINUS"} :
       eval = [f |-> "with_year",
               in |-> [date |-> date, value |-> value, operation |-> operation],
               calls |-> 0, out |-> NoDate]
  \/ \E dt \in BaseInstants, hour \in 1..12, suffix \in {"", "am", "pm"} :
       eval = [f |-> "o_clock", in |-> [date |-> dt, hour |-> hour, suffix |-> suffix],
               calls |-> 0, out |-> NoDate]

\* execute_date_expression(date, "+ N month") or "- N month"
AdjustMonth ==
  /\ eval.f = "roll_month" /\ eval.calls = 0
  /\ eval' = [eval EXCEPT !.calls = 1,
                !.out = adjust_date(Adjustment("MONTH", u64(eval.in.n), eval.in.operation),
                                    eval.in.date)]
  /\ UNCHANGED <<pathVars, pactVars, mimeVars>>

\* execute_date_expression(date, "+ N year") or "- N year"
AdjustYear ==
  /\ eval.f = "with_year" /\ eval.calls = 0
  /\ eval' = [eval EXCEPT !.calls = 1,
                !.out = adjust_date(Adjustment("YEAR", eval.in.value, eval.in.operation),
                                    eval.in.date)]
  /\ UNCHANGED <<pathVars, pactVars, mimeVars>>

\* execute_time_expression(dt, "h o'clock"), "h o'clock am" or "h o'clock pm"
OClock ==
  /\ eval.f = "o_clock" /\ eval.calls = 0
  /\ LET base == TimeBase_of(eval.in.hour, ClockHour_of(eval.in.suffix))
     IN eval' = [eval EXCEPT !.calls = 1,
                   !.out = IF base.ok
                           THEN [ok |-> TRUE,
                                 date |-> execute_time_expression(eval.in.date, base.base)]
                           ELSE [ok |-> FALSE]]
  /\ UNCHANGED <<pathVars, pactVars, mimeVars>>

DateTimeNext == AdjustMonth \/ AdjustYear \/ OClock

(***************************************************************************)
(* Specifications: one per subsystem, the others idle                      *)
(***************************************************************************)
IdlePath == docPath = DocPath_root /\ parsed = NoParse
IdlePact == pacts = [i \in PactIds |-> EmptyPact(1, default_metadata, "V3")] /\ merged = NoMerge
NoEval == [f |-> "none"]
IdleEval == eval = NoEval
IdleMime == call = [c \in CallIds |-> UnusedCall] /\ task = [c \in CallIds |-> NoTask]

InitPathOnly == InitPath /\ IdlePact /\ IdleMime /\ IdleEval
InitPactOnly == IdlePath /\ InitPact /\ IdleMime /\ IdleEval
InitMimeOnly == IdlePath /\ IdlePact /\ InitMime /\ IdleEval
InitConcOnly == IdlePath /\ IdlePact /\ InitConc /\ IdleEval
InitTimedOnly == IdlePath /\ IdlePact /\ InitTimed /\ IdleEval

SpecPath == InitPathOnly /\ [][PathNext]_vars
SpecPact == InitPactOnly /\ [][PactNext]_vars
SpecMime == InitMimeOnly /\ [][MimeNext]_vars
SpecConc == InitConcOnly /\ [][MimeNext]_vars

InitOctetOnly == IdlePath /\ IdlePact /\ IdleMime /\ InitOctet
SpecOctet == InitOctetOnly /\ [][MatchOctetStream]_vars

InitDocPathOnly == InitDocPath /\ IdlePact /\ IdleMime
SpecDocPath == InitDocPathOnly /\ [][DocPathNext]_vars

InitWeightOnly == IdlePath /\ IdlePact /\ IdleMime /\ InitWeight
SpecWeight == InitWeightOnly /\ [][WeightNext]_vars

InitParseOnly == IdlePath /\ IdlePact /\ IdleMime /\ InitParse
SpecParse == InitParseOnly /\ [][ParseNext]_vars

InitHeadersOnly == IdlePath /\ IdlePact /\ IdleMime /\ InitHeaders
SpecHeaders == InitHeadersOnly /\ [][HeadersNext]_vars

InitMessageJsonOnly == IdlePath /\ IdlePact /\ IdleMime /\ InitMessageJson
SpecMessageJson == InitMessageJsonOnly /\ [][MessageJsonNext]_vars

InitQueryOnly == IdlePath /\ IdlePact /\ IdleMime /\ InitQuery
SpecQuery == InitQueryOnly /\ [][QueryNext]_vars

InitParseHeaderOnly == IdlePath /\ IdlePact /\ IdleMime /\ InitParseHeader
SpecParseHeader == InitParseHeaderOnly /\ [][ParseHeader]_vars

InitEncodeOnly == IdlePath /\ IdlePact /\ IdleMime /\ InitEncode
SpecEncode == InitEncodeOnly /\ [][EncodeNext]_vars

InitParseIndexOnly == IdlePath /\ IdlePact /\ IdleMime /\ InitParseIndex
SpecParseIndex == InitParseIndexOnly /\ [][ParseIndex]_vars

InitResolveOnly == IdlePath /\ IdlePact /\ IdleMime /\ InitResolve
SpecResolve == InitResolveOnly /\ [][ResolvePath]_vars

InitDateTimeOnly == IdlePath /\ IdlePact /\ IdleMime /\ InitDateTime
SpecDateTime == InitDateTimeOnly /\ [][DateTimeNext]_vars

\* the caller's own steps and the clock always go on; the spawned thread may
\* stop anywhere
CallerFair ==
  \A c \in CallIds : WF_vars(Recv(c) \/ Timeout(c) \/ Disconnected(c) \/ Tick(c))
SpecMimeFair == InitTimedOnly /\ [][MimeNext]_vars /\ CallerFair

(***************************************************************************)
(* Properties of path expressions                                          *)
(***************************************************************************)
\* C1: parsing the rendered expression of any legal path succeeds and
\* gives back the path's tokens, whatever characters its field names hold.
PathRoundTrip ==
  parsed.called => parsed.result.ok /\ parsed.result.tokens = parsed.tokens

(***************************************************************************)
(* Properties of message pacts                                             *)
(***************************************************************************)
same_identity(a, b) == merge_cmp(a, b) = "Equal"
UniqueIdentities(messages) ==
  \A i, j \in 1..Len(messages) : i # j => ~same_identity(messages[i], messages[j])
StrictlySorted(messages) ==
  \A i, j \in 1..Len(messages) : i < j => merge_cmp(messages[i], messages[j]) = "Less"
\* an existing and an incoming message of one identity and different content
Conflicts(a, b) ==
  {<<i, j>> \in (1..Len(a.messages)) \X (1..Len(b.messages)) :
     /\ same_identity(a.messages[i], b.messages[j])
     /\ a.messages[i] # b.messages[j]}
SameParties(a, b) == a.consumer = b.consumer /\ a.provider = b.provider

\* C2: after any sequence of add_interaction and merge, no two messages of
\* a pact, or of a merge's result, share an identity (description and
\* provider-state names).
MessageIdentityUnique ==
  /\ \A i \in PactIds : UniqueIdentities(pacts[i].messages)
  /\ merged.called /\ merged.result.ok => UniqueIdentities(merged.result.pact.messages)

\* C3 as stated: a merge that meets a conflict (same identity, different
\* content) fails with an error.
MergeConflictFails ==
  merged.called /\ SameParties(merged.a, merged.b) /\ Conflicts(merged.a, merged.b) # {}
    => ~merged.result.ok

\* C3 as the code has it: a merge succeeds exactly when consumer and
\* provider agree, conflict or not; every incoming message is in the merged
\* pact; and when both lists are in strict identity order the existing
\* message of every conflict is replaced by the incoming one.
MergeIncomingWins ==
  merged.called =>
    /\ merged.result.ok <=> SameParties(merged.a, merged.b)
    /\ merged.result.ok =>
         /\ \A j \in 1..Len(merged.b.messages) :
              merged.b.messages[j] \in Range(merged.result.pact.messages)
         /\ StrictlySorted(merged.a.messages) /\ StrictlySorted(merged.b.messages) =>
              \A c \in Conflicts(merged.a, merged.b) :
                merged.a.messages[c[1]] \notin Range(merged.result.pact.messages)

\* C3 witness: a merge of two pacts in identity order that conflict has
\* succeeded with the incoming content in place of the existing one.
MergeIncomingWinsWitness ==
  /\ merged.called /\ merged.result.ok
  /\ StrictlySorted(merged.a.messages) /\ StrictlySorted(merged.b.messages)
  /\ Len(merged.a.messages) = 2
  /\ Conflicts(merged.a, merged.b) # {}

\* C4: merging a pact with itself succeeds and gives the pact back: same
\* consumer, provider, metadata, specification version and messages in the
\* same order.
MergeSelf ==
  merged.called /\ merged.a = merged.b =>
    merged.result.ok /\ merged.result.pact = merged.a

\* C4 witness: a pact holding two messages out of identity order has been
\* merged with itself.
MergeSelfWitness ==
  /\ merged.called /\ merged.a = merged.b
  /\ Len(merged.a.messages) = 2
  /\ merge_cmp(merged.a.messages[1], merged.a.messages[2]) = "Greater"
  /\ merged.result.ok

(***************************************************************************)
(* Properties of multipart matching                                        *)
(***************************************************************************)
Returned(c) == call[c].pc = "returned"
Received(c) == Returned(c) /\ call[c].result.from = "task"
GaveUp(c) == Returned(c) /\ call[c].result.from \in {"timeout", "disconnected"}

\* the messages of the rules that reject a pair of values, as the rule logic
\* lets them count: all failures under And, none under Or unless every rule
\* fails
RuleFailures(list, expected, actual) ==
  LET failing == {i \in 1..Len(list.rules) :
                    ~matches_with(expected, actual, list.rules[i], list.cascaded).ok}
  IN IF list.rule_logic = "Or" /\ failing # 1..Len(list.rules) THEN {}
     ELSE {matches_with(expected, actual, list.rules[i], list.cascaded).err : i \in failing}

EqualityFailure(expected, actual) ==
  IF expected = actual THEN {}
  ELSE {<<"Expected", actual, "to be equal to", expected>>}

\* the header differences between an expected part and its partner
DetectedHeaders(e, a, context) ==
  LET path == part_path(e.name, e)
      part_name == IF e.name = <<>> THEN <<"unknown part">> ELSE e.name
  IN UNION {
       LET key_path == DocPath_join(path, <<key>>) IN
       IF HeaderMap_get(e.headers, key) = <<>> THEN {}
       ELSE IF HeaderMap_get(a.headers, key) = <<>>
       THEN IF key \in {"content-type", "content-disposition", "content-transfer-encoding"}
            THEN {}
            ELSE {BodyMismatch(key_path.expr,
                               <<"MIME part", part_name, "Expected multipart header", key,
                                 HeaderMap_get(e.headers, key), "but was missing">>)}
       ELSE IF direct_matcher_defined(context, key_path)
       THEN {BodyMismatch(key_path.expr, <<"MIME part", part_name, err>>) :
               err \in RuleFailures(select_best_matcher(context, key_path),
                                    HeaderMap_get(e.headers, key), HeaderMap_get(a.headers, key))}
       ELSE IF key = "content-disposition" THEN {}
       ELSE {BodyMismatch(key_path.expr, <<"MIME part", part_name, <<"header", key, err>>>>) :
               err \in EqualityFailure(HeaderMap_get(e.headers, key), HeaderMap_get(a.headers, key))}
       : key \in HeaderNames}

\* the content differences between an expected part and its partner
DetectedContent(e, a, context) ==
  LET path == part_path(e.name, e)
      part_name == IF e.name = <<>> THEN usize_to_string(e.index) ELSE e.name
      ev == decoded_or_raw(e)
      av == decoded_or_raw(a)
  IN CASE e.kind = "Field" /\ a.kind = "Field" ->
            IF matcher_is_defined(context, path)
            THEN {BodyMismatch(path.expr, err) :
                    err \in RuleFailures(select_best_matcher(context, path), ev, av)}
            ELSE {BodyMismatch(path.expr, <<"MIME part", e.name, err>>) :
                    err \in EqualityFailure(ev, av)}
       [] e.kind = "File" /\ a.kind = "File" ->
            IF /\ e.content_type # 0 /\ a.content_type # 0
               /\ e.content_type # a.content_type
               /\ e.content_type # base_type(a.content_type)
            THEN {BodyTypeMismatch(e.content_type, a.content_type,
                                   <<"MIME part", part_name, "Expected a body of",
                                     e.content_type, "but the actual content type was",
                                     a.content_type>>)}
            ELSE IF matcher_is_defined(context, path)
            THEN {BodyMismatch(<<"$">>, <<"MIME part", part_name, err>>) :
                    err \in RuleFailures(select_best_matcher(context, path), ev, av)}
            ELSE IF ev # av
            THEN {BodyMismatch(<<"$">>, <<"MIME part", part_name,
                                          <<"Actual body", av,
                                            "is not equal to the expected body", ev>>>>)}
            ELSE {}
       [] e.kind = "Field" /\ a.kind = "File" ->
            {BodyMismatch(<<"$">>, <<"Expected a MIME field", e.name, "but was file">>)}
       [] e.kind = "File" /\ a.kind = "Field" ->
            {BodyMismatch(<<"$">>, <<"Expected a MIME file", e.name, "but was field">>)}

\* what comparing expected part n has detected
DetectedPart(t, n) ==
  LET e == t.expected_parts.parts[n]
      k == t.compared[n]
  IN IF k = 0
     THEN {BodyMismatch(<<"$">>, <<"Expected a MIME part", e.name, "but was missing">>)}
     ELSE LET a == t.actual_parts.parts[k] IN
          IF e.kind = a.kind
          THEN DetectedHeaders(e, a, t.context) \cup DetectedContent(e, a, t.context)
          ELSE DetectedContent(e, a, t.context)

\* everything the matching task of a call has detected so far
Detected(t) ==
  IF t.pc \in {"none", "spawned", "parsing", "dead"} THEN {}
  ELSE IF ~t.expected_parts.ok \/ ~t.actual_parts.ok
  THEN (IF t.expected_parts.ok THEN {}
        ELSE {BodyMismatch(<<"$">>, <<"Failed to parse the expected body as a MIME multipart body",
                                      t.expected_parts.err>>)})
         \cup (IF t.actual_parts.ok THEN {}
               ELSE {BodyMismatch(<<"$">>, <<"Failed to parse the actual body as a MIME multipart body",
                                             t.actual_parts.err>>)})
  ELSE UNION {DetectedPart(t, n) : n \in 1..Len(t.compared)}

\* C5 as stated: every mismatch detected while a multipart body is matched
\* is in the returned result (only Or logic with a succeeding rule lets a
\* failure go).
NoMismatchDropped ==
  \A c \in CallIds :
    Returned(c) => Detected(task[c]) \subseteq Range(call[c].result.mismatches)

\* C5 as the code has it: whenever the matching task's result is received
\* within the time limit, every mismatch detected is in the returned result
\* (only Or logic with a succeeding rule lets a failure go); when the wait
\* gives up, the result is the timeout mismatch alone.
NoMismatchDroppedInTime ==
  \A c \in CallIds :
    /\ Received(c) => /\ task[c].pc = "finished"
                      /\ Detected(task[c]) \subseteq Range(call[c].result.mismatches)
    /\ GaveUp(c) => Len(call[c].result.mismatches) = 1

\* C5 witness: a call has returned a received result in which one field
\* contributes two mismatches (a header's and the content's, or two failing
\* rules').
NoMismatchDroppedWitness ==
  \E c \in CallIds :
    /\ Received(c)
    /\ Cardinality(Detected(task[c])) >= 2
    /\ \E n \in 1..Len(task[c].compared) :
         /\ task[c].compared[n] # 0
         /\ task[c].expected_parts.parts[n].kind = "Field"
         /\ Cardinality(DetectedPart(task[c], n)) = 2

\* C6: a call returns within the time limit, with the matching task's
\* result when that arrived in time, and otherwise (the task hangs or ends
\* without sending) with exactly one body mismatch at the root path; a
\* waiting call always returns.
ReturnsWithinLimit ==
  /\ [](\A c \in CallIds :
          /\ call[c].elapsed <= TimeoutSecs
          /\ Received(c) => /\ task[c].pc = "finished"
                            /\ call[c].result.mismatches = task[c].mismatches
          /\ GaveUp(c) => /\ ~call[c].result.ok
                          /\ Len(call[c].result.mismatches) = 1
                          /\ call[c].result.mismatches[1].type = "BodyMismatch"
                          /\ call[c].result.mismatches[1].path = <<"$">>
                          /\ call[c].chan = <<>>
                          /\ \/ call[c].elapsed = TimeoutSecs
                             \/ task[c].pc \in {"dead", "finished"})
  /\ \A c \in CallIds : call[c].pc = "waiting" ~> Returned(c)

\* C6 witness: a call has given up at the time limit while its task was
\* still matching.
ReturnsWithinLimitWitness ==
  \E c \in CallIds :
    /\ GaveUp(c)
    /\ call[c].elapsed = TimeoutSecs
    /\ task[c].pc = "matching"
    /\ task[c].mismatches # <<>>

\* C7: when the task's result is received in time, the returned mismatches
\* are exactly the complete list for the inputs, never a part of it.
CompleteResult ==
  \A c \in CallIds :
    Received(c) =>
      /\ call[c].result.mismatches =
           match_mime_multipart_inner(call[c].context, call[c].expected, call[c].actual)
      /\ call[c].result.ok <=> call[c].result.mismatches = <<>>
      /\ task[c].expected_parts.ok /\ task[c].actual_parts.ok =>
           Len(task[c].compared) = Len(call[c].expected.body)

\* C7 witness: a received result holds mismatches of the first and of the
\* second expected part.
CompleteResultWitness ==
  \E c \in CallIds :
    /\ Received(c)
    /\ Len(task[c].compared) = 2
    /\ DetectedPart(task[c], 1) # {}
    /\ DetectedPart(task[c], 2) # {}
    /\ DetectedPart(task[c], 1) # DetectedPart(task[c], 2)

\* the result a call is due, from its own inputs alone
OwnResult(c) ==
  match_mime_multipart_inner(call[c].context, call[c].expected, call[c].actual)

\* C8: calls running side by side do not interfere: each task works on
\* clones of its own call's inputs and each call returns the result of its
\* own inputs (or its own timeout mismatch).
NoInterference ==
  \A c \in CallIds :
    /\ task[c].pc # "none" =>
         /\ task[c].expected = call[c].expected
         /\ task[c].actual = call[c].actual
         /\ task[c].context = call[c].context
    /\ Len(call[c].chan) <= 1
    /\ Received(c) => call[c].result.mismatches = OwnResult(c)
    /\ GaveUp(c) => Len(call[c].result.mismatches) = 1
                      /\ call[c].result.mismatches[1].path = <<"$">>

\* C8 witness: two calls with different inputs have both received their
\* results, one without and one with mismatches.
NoInterferenceWitness ==
  \E c, d \in CallIds :
    /\ Received(c) /\ Received(d)
    /\ call[c].result.mismatches = <<>>
    /\ call[d].result.mismatches # <<>>

ParseFailed(c) ==
  \/ ~get_multipart_boundary(call[c].expected.headers).ok
  \/ ~get_multipart_boundary(call[c].actual.headers).ok
FailedBodies(c) ==
  {b \in {"expected", "actual"} :
     ~get_multipart_boundary(IF b = "expected" THEN call[c].expected.headers
                             ELSE call[c].actual.headers).ok}

\* C9 as stated: a body that cannot be parsed as multipart is reported as
\* a single body-level mismatch.
ParseFailureSingleMismatch ==
  \A c \in CallIds :
    Received(c) /\ ParseFailed(c) => Len(call[c].result.mismatches) = 1

\* C9 as the code has it: the call returns normally with one body-level
\* mismatch at the root path for each of the two bodies that cannot be
\* parsed (two when neither can), the expected body's first, and nothing
\* else.
ParseFailurePerBody ==
  \A c \in CallIds :
    Received(c) /\ ParseFailed(c) =>
      /\ ~call[c].result.ok
      /\ Len(call[c].result.mismatches) = Cardinality(FailedBodies(c))
      /\ \A i \in 1..Len(call[c].result.mismatches) :
           /\ call[c].result.mismatches[i].type = "BodyMismatch"
           /\ call[c].result.mismatches[i].path = <<"$">>
      /\ "expected" \in FailedBodies(c) =>
           call[c].result.mismatches[1].mismatch[1]
             = "Failed to parse the expected body as a MIME multipart body"
      /\ "actual" \in FailedBodies(c) =>
           call[c].result.mismatches[Len(call[c].result.mismatches)].mismatch[1]
             = "Failed to parse the actual body as a MIME multipart body"

\* C9 witness: neither body had a boundary and the call has returned the
\* task's result.
ParseFailurePerBodyWitness ==
  \E c \in CallIds :
    /\ Received(c)
    /\ call[c].expected.headers = "no_boundary"
    /\ call[c].actual.headers = "no_boundary"

\* the actual part the expected part is to be compared with: the first of
\* the same name when the expected part is named, the one at the same index
\* when it is not; 0 when there is none
ClaimedPartner(expected_part, actual_parts) ==
  LET same == IF expected_part.name # <<>>
              THEN {k \in 1..Len(actual_parts) : actual_parts[k].name = expected_part.name}
              ELSE {k \in 1..Len(actual_parts) : actual_parts[k].index = expected_part.index}
  IN IF same = {} THEN 0 ELSE CHOOSE k \in same : \A j \in same : k <= j

\* C10: each expected part is compared with the actual part of the same
\* name when it is named, and with the actual part at the same index when
\* it is not; with none, it is reported missing.
PartsPairedByName ==
  \A c \in CallIds :
    \A n \in 1..Len(task[c].compared) :
      task[c].compared[n]
        = ClaimedPartner(task[c].expected_parts.parts[n], task[c].actual_parts.parts)

ContentHeaders == {"content-type", "content-disposition", "content-transfer-encoding"}

\* the expected parts of a task that were compared with a part of their kind
HeaderCompared(t) ==
  {n \in 1..Len(t.compared) :
     /\ t.compared[n] # 0
     /\ t.expected_parts.parts[n].kind = t.actual_parts.parts[t.compared[n]].kind}

\* the mismatches match_headers gives for header key of expected part n
HeaderMismatchesAt(t, n, key) ==
  LET e == t.expected_parts.parts[n]
      a == t.actual_parts.parts[t.compared[n]]
      path == part_path(e.name, e)
  IN {m \in Range(match_headers(path, e.headers, a.headers, t.context)) :
        m.path = DocPath_join(path, <<key>>).expr}

\* C11 as stated: within a part, a difference in the Content-Type,
\* Content-Disposition or Content-Transfer-Encoding header never produces a
\* mismatch.
ContentHeadersNeverMismatch ==
  \A c \in CallIds : \A n \in HeaderCompared(task[c]) : \A key \in ContentHeaders :
    HeaderMismatchesAt(task[c], n, key) = {}

\* the one mismatch of a field compared with a file, or a file with a field
KindMismatch(e, a) ==
  IF e.kind = "Field"
  THEN BodyMismatch(<<"$">>, <<"Expected a MIME field", e.name, "but was file">>)
  ELSE BodyMismatch(<<"$">>, <<"Expected a MIME file", e.name, "but was field">>)

\* C11 as the code has it, for each expected part and the actual part it is
\* compared with.  When both are fields or both are files: a content-*
\* header missing on either side produces no mismatch; a content-* header
\* present on both sides with a rule defined directly on it is compared by
\* that rule alone, whose failures are the mismatches whether or not the
\* values differ; with no such rule a differing Content-Disposition produces
\* no mismatch, and a Content-Type or Content-Transfer-Encoding is compared
\* by equality and produces a mismatch exactly when the values differ.  The
\* mismatches reach the collected list.  When one is a field and the other
\* a file (an actual part without Content-Disposition is a file) the one
\* mismatch is that of the kinds and no header is compared.
ContentHeadersCompared ==
  \A c \in CallIds : \A n \in 1..Len(task[c].compared) :
    task[c].compared[n] # 0 =>
      LET e == task[c].expected_parts.parts[n]
          a == task[c].actual_parts.parts[task[c].compared[n]]
          path == part_path(e.name, e)
          part_name == IF e.name = <<>> THEN <<"unknown part">> ELSE e.name
      IN /\ e.kind # a.kind =>
              /\ match_mime_part(e, a, task[c].context) = <<KindMismatch(e, a)>>
              /\ KindMismatch(e, a) \in Range(task[c].mismatches)
         /\ e.kind = a.kind =>
              \A key \in ContentHeaders :
                LET key_path == DocPath_join(path, <<key>>)
                    expected_value == HeaderMap_get(e.headers, key)
                    actual_value == HeaderMap_get(a.headers, key)
                    found == HeaderMismatchesAt(task[c], n, key)
                IN /\ found \subseteq Range(task[c].mismatches)
                   /\ expected_value = <<>> \/ actual_value = <<>> => found = {}
                   /\ expected_value # <<>> /\ actual_value # <<>> =>
                        IF direct_matcher_defined(task[c].context, key_path)
                        THEN found =
                               {BodyMismatch(key_path.expr, <<"MIME part", part_name, err>>) :
                                  err \in RuleFailures(select_best_matcher(task[c].context, key_path),
                                                       expected_value, actual_value)}
                        ELSE IF key = "content-disposition" THEN found = {}
                        ELSE found # {} <=> expected_value # actual_value

\* C11 witness: a received result holds, for one pair of files, the mismatch
\* of a rule defined directly on Content-Disposition that rejects the
\* actual value, and the mismatch of a Content-Type that differs and has no
\* rule of its own.
ContentHeadersComparedWitness ==
  \E c \in CallIds : \E n \in HeaderCompared(task[c]) :
    LET e == task[c].expected_parts.parts[n]
        a == task[c].actual_parts.parts[task[c].compared[n]]
        path == part_path(e.name, e)
    IN /\ Received(c)
       /\ direct_matcher_defined(task[c].context, DocPath_join(path, <<"content-disposition">>))
       /\ ~direct_matcher_defined(task[c].context, DocPath_join(path, <<"content-type">>))
       /\ HeaderMap_get(e.headers, "content-disposition") # <<>>
       /\ HeaderMap_get(a.headers, "content-disposition") # <<>>
       /\ HeaderMap_get(e.headers, "content-disposition") # HeaderMap_get(a.headers, "content-disposition")
       /\ HeaderMismatchesAt(task[c], n, "content-disposition") # {}
       /\ HeaderMismatchesAt(task[c], n, "content-type") # {}
       /\ HeaderMismatchesAt(task[c], n, "content-disposition") \subseteq Range(call[c].result.mismatches)
       /\ HeaderMismatchesAt(task[c], n, "content-type") \subseteq Range(call[c].result.mismatches)

(***************************************************************************)
(* Properties of rule logic                                                *)
(***************************************************************************)
OctetApplied == eval.f = "match_octet_stream" /\ eval.done
\* the rule list that applies at the root of the body, and the rules of it
\* that reject the actual body
OctetRuleList == select_best_matcher(eval.in.context, DocPath_root)
OctetFailing ==
  {i \in 1..Len(OctetRuleList.rules) :
     ~matches_with(eval.in.expected_body, eval.in.actual_body,
                   OctetRuleList.rules[i], OctetRuleList.cascaded).ok}

\* C12: for the rule list applied at one path, And logic succeeds only if
\* every rule succeeds and reports one mismatch per failing rule; Or logic
\* succeeds if at least one rule succeeds and then reports none of the
\* failing rules' errors (and when every rule fails, it reports them all).
RuleLogicAndOr ==
  OctetApplied /\ matcher_is_defined(eval.in.context, DocPath_root)
    /\ OctetRuleList.rules # <<>> =>
      /\ \A i \in 1..Len(eval.out) : eval.out[i].path = <<"$">>
      /\ OctetRuleList.rule_logic = "And" =>
           /\ Len(eval.out) = Cardinality(OctetFailing)
           /\ eval.out = <<>> <=> OctetFailing = {}
      /\ OctetRuleList.rule_logic = "Or" =>
           /\ OctetFailing # 1..Len(OctetRuleList.rules) => eval.out = <<>>
           /\ OctetFailing = 1..Len(OctetRuleList.rules) =>
                Len(eval.out) = Len(OctetRuleList.rules)

\* C12 witness: an Or list of two rules, one failing and one succeeding,
\* has been applied.
RuleLogicAndOrWitness ==
  /\ OctetApplied /\ matcher_is_defined(eval.in.context, DocPath_root)
  /\ OctetRuleList.rule_logic = "Or"
  /\ Len(OctetRuleList.rules) = 2
  /\ Cardinality(OctetFailing) = 1
  /\ eval.out = <<>>

(***************************************************************************)
(* Properties of DocPath construction                                      *)
(***************************************************************************)
RootFirst == docPath.path_tokens # <<>> => docPath.path_tokens[1] = Root

\* C13 as stated: whatever constructors and operations were applied, a path
\* that has a token has Root as its first token.
AlwaysRootFirst == eval.f = "DocPath" => RootFirst

\* C13: root() and new() of an expression that is not empty give a path that
\* begins with Root, and a path that was constructed with Root first keeps
\* Root first, and a token, under push, push_field, push_index, push_star,
\* push_star_index, push_path, join, join_field, join_index and parent.
\* Whatever the constructor, an operation on a path that has tokens leaves
\* it with tokens and leaves Root first exactly when Root was first before;
\* an operation on a path without tokens puts Root first exactly when it is
\* push of Root, which gives the path of Root alone.
RootedStaysRootFirst ==
  eval.f = "DocPath" =>
    LET before == eval.self.path_tokens
        after == docPath.path_tokens
        operated == eval.op \notin DocConstructors
    IN /\ eval.origin = "root" => eval.rooted
       /\ eval.op = "new" /\ after # <<>> => eval.rooted
       /\ eval.op = "empty" => after = <<>>
       /\ eval.rooted => after # <<>> /\ RootFirst
       /\ operated /\ before # <<>> =>
            /\ after # <<>>
            /\ after[1] = Root <=> before[1] = Root
       /\ operated /\ before = <<>> /\ after # <<>> =>
            (after[1] = Root <=> eval.op = "push" /\ eval.arg = <<Root>>)
       /\ operated /\ before = <<>> /\ eval.op = "push" /\ eval.arg = <<Root>> =>
            docPath = DocPath_root
       /\ operated /\ before = <<>> /\ eval.op = "join_index" =>
            after = <<Index(0)>> /\ docPath.expr = <<"[", "0", "]">>

\* C13 witness: a path from empty() was given Root by push, which put Root
\* first, and join_index has then acted on it and Root is still first.
RootedStaysRootFirstWitness ==
  /\ eval.f = "DocPath" /\ eval.origin = "empty" /\ ~eval.rooted
  /\ eval.op = "join_index"
  /\ eval.self = DocPath_root
  /\ docPath.path_tokens = <<Root, Index(0)>>
  /\ docPath.expr = <<"$", "[", "0", "]">>

(***************************************************************************)
(* Properties of path weights                                              *)
(***************************************************************************)
WeightTokensIn == eval.in.self.path_tokens
Weighed == eval.f = "path_weight" /\ eval.calls >= 1
Matched == eval.f = "path_weight" /\ eval.calls >= 2
WeighedLonger == eval.f = "path_weight" /\ eval.calls = 3

\* the table of token weights: a token matches a fragment, or does not
TokenMatches(token, fragment) ==
  CASE token.t = "Root" -> fragment = <<"$">>
    [] token.t = "Field" -> fragment = token.name
    [] token.t = "Index" -> parses_as_usize(fragment) /\ parse_usize(fragment) = token.index
    [] token.t = "Star" -> TRUE
    [] token.t = "StarIndex" -> fragment = <<"[", "*", "]">> \/ parses_as_usize(fragment)

TokenWeight(token, fragment) ==
  IF ~TokenMatches(token, fragment) THEN 0
  ELSE IF token.t \in {"Root", "Field", "Index"} THEN 2
  ELSE 1

RECURSIVE WeightProduct(_, _)
WeightProduct(tokens, path) ==
  IF tokens = <<>> THEN 1
  ELSE TokenWeight(Head(tokens), Head(path)) * WeightProduct(Tail(tokens), Tail(path))

EveryTokenMatches(tokens, path) ==
  /\ Len(path) >= Len(tokens)
  /\ \A i \in 1..Len(tokens) : TokenMatches(tokens[i], path[i])

SomeTokenMatches(tokens, path) ==
  \E i \in 1..Len(tokens) : i <= Len(path) /\ TokenMatches(tokens[i], path[i])

\* C14: the weight is 0 when the path has fewer fragments than the
\* expression has tokens, and otherwise the product of the token weights
\* over the first fragments (2 for a matching Root, Field or Index, 1 for
\* Star or a matching StarIndex, 0 for a token that does not match); it is
\* not zero exactly when every token matches its fragment.
WeightIsProduct ==
  Weighed =>
    /\ eval.weight[1] = IF Len(eval.in.path) < Len(WeightTokensIn) THEN 0
                        ELSE WeightProduct(WeightTokensIn, eval.in.path)
    /\ eval.weight[1] # 0 <=> EveryTokenMatches(WeightTokensIn, eval.in.path)

\* Root and a StarIndex weighed against "$" and a number
WeightIsProductWitness ==
  /\ Weighed
  /\ WeightTokensIn = <<Root, StarIndex>>
  /\ eval.in.path = <<<<"$">>, <<"+", "1">>>>
  /\ eval.weight = <<2, 2>>

\* C15: matches_path is true only when the weight is greater than zero, and
\* then at least one token of the expression matched a fragment of the path
\* (the doc comment of matches_path).  The expression without tokens has
\* weight 1 and matches every path, no token having matched.
MatchesMeansSomeTokenMatched ==
  Matched /\ eval.matches =>
    /\ eval.weight[1] > 0
    /\ SomeTokenMatches(WeightTokensIn, eval.in.path)

\* C16: fragments appended to the path never lower the weight.
WeightMonotone ==
  WeighedLonger => eval.longer[1] >= eval.weight[1]

\* the appended fragment completed the match
WeightMonotoneWitness ==
  /\ WeighedLonger
  /\ WeightTokensIn = <<Root, Field(<<"a">>)>>
  /\ eval.in.path = <<<<"$">>>> /\ eval.in.more = <<<<"a">>>>
  /\ eval.weight[1] = 0 /\ eval.longer[1] = 4

(***************************************************************************)
(* Properties of the path expression parser                                *)
(***************************************************************************)
Parsed == eval.f = "parse_path_exp" /\ eval.calls >= 1
ParsedBoth == eval.f = "parse_path_exp" /\ eval.calls = 2

\* C17: every error of parse_path_exp names the offending character, its
\* 0-based index in the expression and the expression itself.
ErrorNamesCharIndexExpr ==
  Parsed /\ ~eval.out.ok =>
    /\ eval.out.path = eval.in
    /\ eval.out.index \in 0..(Len(eval.in) - 1)
    /\ eval.out.ch = eval.in[eval.out.index + 1]

\* C18: an expression that begins with an identifier character parses with
\* Root implied, to the tokens of the same expression after "$.".
LeadingRootOptional ==
  ParsedBoth /\ eval.in # <<>> /\ is_identifier_char(eval.in[1]) /\ eval.rooted.ok =>
    /\ eval.out.ok
    /\ eval.out.tokens = eval.rooted.tokens

(***************************************************************************)
(* Properties of the JSON forms                                            *)
(***************************************************************************)
Written == eval.f = "message_json" /\ eval.calls = 2

\* an attribute of the JSON read and of the JSON written is the same, or is
\* in neither
Preserved(key) == get(eval.json, key) = get(eval.in.json, key)

\* the metadata of the JSON read, under either spelling of its key, none
\* being no entries
MetadataRead ==
  IF get(eval.in.json, "metaData").t # "Absent" THEN get(eval.in.json, "metaData")
  ELSE IF get(eval.in.json, "metadata").t # "Absent" THEN get(eval.in.json, "metadata")
  ELSE JObject(<<>>)

\* C19: a V3 message JSON that from_json accepts is written back by to_json
\* with its description, provider states, contents, metadata, matching rules
\* and generators as they were read.
MessageJsonRoundTrip ==
  Written =>
    /\ get(eval.in.json, "description").t # "Absent" => Preserved("description")
    /\ Preserved("providerStates")
    /\ Preserved("contents")
    /\ get(eval.json, "metadata") = MetadataRead
    /\ Preserved("matchingRules")
    /\ Preserved("generators")

\* C20: the headers read back from the JSON written for a header map are
\* the header map, also when set-cookie has several values and when a value
\* holds a comma.
HeadersRoundTrip ==
  eval.f = "headers" /\ eval.calls = 2 =>
    /\ eval.back.some
    /\ eval.back.map = eval.in

(***************************************************************************)
(* Properties of query strings                                             *)
(***************************************************************************)
QueryParsed == eval.f = "parse_query_string" /\ eval.calls >= 1
QuerySwapped == eval.f = "parse_query_string" /\ eval.calls = 2

\* name and value of one parameter that is not empty
ParamName(p) == decode_or_raw(splitn_2(p)[1])
ParamValue(p) == IF Len(splitn_2(p)) > 1 THEN <<decode_or_raw(splitn_2(p)[2])>> ELSE <<>>

\* the values of the parameters of one name, first to last
RECURSIVE ValuesOf(_, _)
ValuesOf(params, name) ==
  IF params = <<>> THEN <<>>
  ELSE (IF Head(params) # <<>> /\ ParamName(Head(params)) = name
        THEN <<ParamValue(Head(params))>> ELSE <<>>) \o ValuesOf(Tail(params), name)

NamesOf(params) ==
  {ParamName(params[i]) : i \in {k \in 1..Len(params) : params[k] # <<>>}}

\* C21: every parameter name is mapped to its values in the order they
\* appear in, and the map is the same when two neighbouring parameters of
\* different names change places.
QueryOrder ==
  /\ QueryParsed /\ eval.out.some =>
       /\ DOMAIN eval.out.map = NamesOf(eval.in.params)
       /\ \A name \in DOMAIN eval.out.map :
            eval.out.map[name] = ValuesOf(eval.in.params, name)
  /\ QuerySwapped =>
       LET a == eval.in.params[eval.in.at]
           b == eval.in.params[eval.in.at + 1]
       IN a = <<>> \/ b = <<>> \/ ParamName(a) # ParamName(b) => eval.other = eval.out

\* a=1&b=1&a=2 and b=1&a=1&a=2 have given the same map, a with 1 before 2
QueryOrderWitness ==
  /\ QuerySwapped
  /\ eval.in.params = <<<<97, 61, 49>>, <<98, 61, 49>>, <<97, 61, 50>>>>
  /\ eval.in.at = 1
  /\ eval.out.map[<<97>>] = <<<<<<49>>>>, <<<<50>>>>>>
  /\ eval.other = eval.out

(***************************************************************************)
(* Properties of header lines                                              *)
(***************************************************************************)
HeaderParsed == eval.f = "parse_header" /\ eval.calls = 1

\* the names of the single-value headers in every spelling drawn
SingleValued(name) ==
  name \in {"Set-Cookie", "SET-COOKIE", "set-cookie", "User-Agent", "Last-Modified", "date"}

\* s without the white space at its ends
Stripped(s) ==
  LET inked == {i \in 1..Len(s) : s[i] \notin {" ", "\t"}}
  IN IF inked = {} THEN <<>>
     ELSE SubSeq(s, CHOOSE i \in inked : \A j \in inked : i <= j,
                    CHOOSE i \in inked : \A j \in inked : i >= j)

\* the positions of the commas of s, with 0 before and Len(s) + 1 after
Cuts(s) == {0, Len(s) + 1} \cup {i \in 1..Len(s) : s[i] = ","}

\* the k-th stretch of s between two cuts
Stretch(s, k) ==
  LET from == CHOOSE c \in Cuts(s) : Cardinality({d \in Cuts(s) : d < c}) = k - 1
      to == CHOOSE c \in Cuts(s) : Cardinality({d \in Cuts(s) : d < c}) = k
  IN SubSeq(s, from + 1, to - 1)

\* C22: a header whose name is, whatever its case, one of the single-value
\* headers gives its whole value, trimmed, as one element; any other header
\* gives the stretches between its commas, each trimmed, in their order.
ParseHeaderSplits ==
  HeaderParsed =>
    IF SingleValued(eval.in.name) THEN eval.out = <<Stripped(eval.in.value)>>
    ELSE /\ Len(eval.out) = Cardinality(Cuts(eval.in.value)) - 1
         /\ \A k \in 1..Len(eval.out) : eval.out[k] = Stripped(Stretch(eval.in.value, k))

\* User-Agent kept whole, comma and all
ParseHeaderSplitsWitness ==
  /\ HeaderParsed
  /\ eval.in.name = "User-Agent"
  /\ eval.in.value = <<" ", "a", ",", "b">>
  /\ eval.out = <<<<"a", ",", "b">>>>

(***************************************************************************)
(* Properties of encoded query strings                                     *)
(***************************************************************************)
Encoded == eval.f = "encode_query" /\ eval.calls >= 1
EncodedDecoded == eval.f = "encode_query" /\ eval.calls = 2

\* C27: encode_query never panics, and decode_query gives back the string
\* that was encoded.
EncodeDecodeRoundTrip ==
  /\ Encoded => ~eval.encoded.panic
  /\ EncodedDecoded => eval.decoded.ok /\ eval.decoded.s = eval.in

(***************************************************************************)
(* Properties of bracket indexes                                           *)
(***************************************************************************)
IndexParsed == eval.f = "index_path" /\ eval.calls = 1

\* C26: parse_path_exp returns Ok or Err and never panics, whatever stands
\* between the brackets.
ParseNeverPanics == IndexParsed => ~Panicked(eval.out)

(***************************************************************************)
(* Properties of the stored expression of a DocPath                        *)
(***************************************************************************)
\* C25: whatever constructors and operations were applied, the stored
\* expression is the rendering of the token list, and the path equals
\* another path exactly when the two token lists are equal.
ExprIsCanonical ==
  eval.f = "DocPath" =>
    /\ docPath.expr = build_expr(docPath.path_tokens)
    /\ \A tokens \in DocTokenLists :
         DocPath_eq(docPath, DocPath_from_tokens(tokens)) <=> docPath.path_tokens = tokens

(***************************************************************************)
(* Properties of what a merge keeps                                        *)
(***************************************************************************)
\* the messages of a whose identity no message of b has
OnlyExisting(a, b) ==
  {i \in 1..Len(a.messages) :
     \A j \in 1..Len(b.messages) : ~same_identity(a.messages[i], b.messages[j])}

\* C30: a merge that succeeds holds every incoming message and every existing
\* message whose identity is not incoming, in whatever order the two pacts
\* store their messages; it has the consumer, provider, metadata and
\* specification version of the existing pact; and the two pacts are as they
\* were, unless the caller put the result in place of the existing one.
MergeKeeps ==
  merged.called /\ merged.result.ok =>
    /\ \A j \in 1..Len(merged.b.messages) :
         merged.b.messages[j] \in Range(merged.result.pact.messages)
    /\ \A i \in OnlyExisting(merged.a, merged.b) :
         merged.a.messages[i] \in Range(merged.result.pact.messages)
    /\ merged.result.pact.consumer = merged.a.consumer
    /\ merged.result.pact.provider = merged.a.provider
    /\ merged.result.pact.metadata = merged.a.metadata
    /\ merged.result.pact.specification_version = merged.a.specification_version
    /\ \E i, j \in PactIds :
         /\ pacts[i] \in {merged.a, merged.result.pact}
         /\ pacts[j] \in {merged.b, merged.result.pact}

\* two different pacts of one consumer, the existing one not in identity
\* order, have been merged
MergeKeepsWitness ==
  /\ merged.called /\ merged.result.ok
  /\ merged.a.metadata # merged.b.metadata
  /\ Len(merged.a.messages) = 2 /\ ~StrictlySorted(merged.a.messages)
  /\ Len(merged.b.messages) >= 1
  /\ OnlyExisting(merged.a, merged.b) # {}
  /\ OnlyExisting(merged.a, merged.b) # 1..2

(***************************************************************************)
(* Properties of resolved paths                                            *)
(***************************************************************************)
Resolved == eval.f = "resolve_path" /\ eval.calls = 1

\* the keys or indexes a token selects in a value, each as the text of a
\* path segment
Selected(token, value) ==
  CASE token.t = "Field" ->
         IF value.t = "Object" /\ token.name \in DOMAIN value.m THEN {token.name} ELSE {}
    [] token.t = "Index" ->
         IF value.t = "Array" /\ token.index < Len(value.v)
         THEN {usize_to_string(token.index)} ELSE {}
    [] token.t = "Star" -> IF value.t = "Object" THEN DOMAIN value.m ELSE {}
    [] token.t = "StarIndex" ->
         IF value.t = "Array" THEN {usize_to_string(i - 1) : i \in 1..Len(value.v)} ELSE {}

\* the value below a segment
Below(value, segment) ==
  IF value.t = "Object" THEN value.m[segment]
  ELSE value.v[CHOOSE i \in 1..Len(value.v) : usize_to_string(i - 1) = segment]

\* the nodes the tokens address in a value, each as the text of its path
RECURSIVE Addressed(_, _)
Addressed(tokens, value) ==
  IF tokens = <<>> THEN {<<>>}
  ELSE UNION {{<<"/">> \o segment \o rest : rest \in Addressed(Tail(tokens), Below(value, segment))} :
                segment \in Selected(Head(tokens), value)}

\* C24: resolve_path returns, each once, exactly the paths of the nodes the
\* expression addresses.
ResolvesAddressed ==
  Resolved =>
    /\ Range(eval.out) = Addressed(Tail(eval.in.tokens), eval.in.value)
    /\ Cardinality(Range(eval.out)) = Len(eval.out)

(***************************************************************************)
(* Properties of date and time adjustments                                 *)
(***************************************************************************)
MonthAdjusted == eval.f = "roll_month" /\ eval.calls = 1
YearAdjusted == eval.f = "with_year" /\ eval.calls = 1
ClockSet == eval.f = "o_clock" /\ eval.calls = 1

\* the months since year 0 of a date
MonthNumber(date) == date.year * 12 + date.month - 1
Signed(n, operation) == IF operation = "PLUS" THEN n ELSE -n

\* C23: a month adjustment by N gives the date N calendar months away, with
\* the day of the month kept where the target month has it and the last day
\* of the target month otherwise.
RollMonthKeepsDay ==
  MonthAdjusted =>
    /\ eval.out.ok
    /\ MonthNumber(eval.out.date) =
         MonthNumber(eval.in.date) + Signed(eval.in.n, eval.in.operation)
    /\ LET last == days_in_month(eval.out.date.year, eval.out.date.month)
       IN eval.out.date.day = IF eval.in.date.day <= last THEN eval.in.date.day ELSE last

\* the value of an adjustment when it is below 2^31
IsSmall(value) == value[3] = 0 /\ value[4] = 0 /\ value[2] < 32768

\* C28: a year adjustment by N gives a date in the year N away, or an error.
YearAdjustedOrError ==
  YearAdjusted /\ eval.out.ok =>
    /\ IsSmall(eval.in.value)
    /\ eval.out.date.year =
         eval.in.date.year + Signed(as_i64(eval.in.value), eval.in.operation)

\* C29: h o'clock, h o'clock am and h o'clock pm give an instant of the base
\* date with minute, second and fraction of a second zero.
OClockOnTheHour ==
  ClockSet =>
    /\ eval.out.ok
    /\ eval.out.date.year = eval.in.date.year
    /\ eval.out.date.month = eval.in.date.month
    /\ eval.out.date.day = eval.in.date.day
    /\ eval.out.date.minute = 0
    /\ eval.out.date.second = 0
    /\ eval.out.date.nano = 0

====
